---- MODULE Spec2Model ----
(***************************************************************************)
(* A model of react-machine: the description compiler (createMachine),     *)
(* the pure transition engine (transition / applyTransition), the effect   *)
(* runtime (runEffects / cleanEffects / promiseEffect) and the service     *)
(* built on them (createService: send, subscribe, stop).                   *)
(*                                                                         *)
(* JavaScript values are encoded as follows.  Primitive values are         *)
(* strings ("1", "true", "b-1"); Null and Undefined are two reserved       *)
(* strings.  A plain object is a function from its own keys to values; an  *)
(* object whose key order is observable (machine.states, a node's          *)
(* transitions) is a record [keys, at].  User supplied functions (guards,  *)
(* reducers, assigns, actions, effects, invokes) are records [fn |-> ...]  *)
(* interpreted by callGuard / callUser / the effect runtime.               *)
(***************************************************************************)
EXTENDS Integers, Sequences, FiniteSets, TLC

Null == "<null>"
Undefined == "<undefined>"

(* Names every plain object inherits from Object.prototype: obj[k] is      *)
(* defined (and truthy) for these k even when k is not an own key.         *)
ObjectPrototypeKeys ==
  {"constructor", "toString", "valueOf", "hasOwnProperty", "isPrototypeOf",
   "propertyIsEnumerable", "toLocaleString"}

Range(s) == {s[i] : i \in DOMAIN s}

(* { ...a, ...b } *)
Spread(a, b) ==
  [k \in (DOMAIN a) \cup (DOMAIN b) |-> IF k \in DOMAIN b THEN b[k] ELSE a[k]]

(* obj[k] for an own key, undefined otherwise (used on contexts/events).   *)
Get(obj, k) == IF k \in DOMAIN obj THEN obj[k] ELSE Undefined

(* JavaScript truthiness of an encoded primitive.                          *)
Truthy(v) == v \notin {Undefined, Null, "", "false", "0"}

(* const { type, ...data } = event                                         *)
Rest(event) == [k \in (DOMAIN event) \ {"type"} |-> event[k]]

ObjEmpty == [keys |-> <<>>, at |-> <<>>]
ObjHasOwn(o, k) == k \in DOMAIN o.at
ObjSet(o, k, v) ==
  [keys |-> IF k \in DOMAIN o.at THEN o.keys ELSE Append(o.keys, k),
   at |-> Spread(o.at, [x \in {k} |-> v])]

(***************************************************************************)
(* User functions.                                                         *)
(***************************************************************************)
(* g(context, event): [threw, value] *)
callGuard(g, context, event) ==
  CASE g.fn = "eventTruthy" -> [threw |-> FALSE, value |-> Truthy(Get(event, g.key))]
    [] g.fn = "contextEq" -> [threw |-> FALSE, value |-> Get(context, g.key) = g.val]
    [] g.fn = "never" -> [threw |-> FALSE, value |-> FALSE]
    [] g.fn = "always" -> [threw |-> FALSE, value |-> TRUE]
    [] OTHER -> [threw |-> TRUE, value |-> FALSE]

(* f(context, eventOrData) for reduce functions, assign functions and      *)
(* actions: [threw, value]                                                 *)
callUser(f, context, event) ==
  CASE f.fn = "payload" ->
         [threw |-> FALSE, value |-> Spread(context, Rest(event))]
    [] f.fn = "set" ->
         [threw |-> FALSE, value |-> Spread(context, [x \in {f.key} |-> f.val])]
    [] f.fn = "concat" ->
         [threw |-> FALSE,
          value |-> Spread(context, [x \in {f.key} |-> f.prefix \o Get(context, f.from)])]
    [] f.fn = "keep" ->
         [threw |-> FALSE,
          value |-> [k \in f.keys \cap DOMAIN context |-> context[k]]]
    [] f.fn = "prefixer" ->
         [threw |-> FALSE,
          value |-> [k \in DOMAIN event |-> "prefix" \o event[k]]]
    [] f.fn = "unused" ->
         [threw |-> FALSE, value |-> [unused |-> "123"]]
    [] OTHER -> [threw |-> TRUE, value |-> context]

(***************************************************************************)
(* Hook lowering and merge                                                 *)
(***************************************************************************)
(* Variant: a transition lowers its reduce entries before its assigns.     *)
transitionHooks_reduceFirst == <<"reduce", "assign", "action", "guard">>

transitionHooks == <<"assign", "reduce", "action", "guard">>
enterHooks == <<"assign", "reduce", "action", "invoke", "effect">>
exitHooks == <<"assign", "reduce", "action">>

HOOK_KEYS ==
  [guard |-> "guards", reduce |-> "reducers", effect |-> "effects",
   invoke |-> "invokes"]

mappedHooks == [assign |-> "reduce", action |-> "reduce"]

isMappedHook(hook) == hook \in DOMAIN mappedHooks

(* Array.isArray(value) ? value : [value]; a list is [many |-> <<..>>].    *)
toArray(value) == IF "many" \in DOMAIN value THEN value.many ELSE <<value>>

(* The closure assignToReduce(assign) / actionToReduce(action), as data.   *)
lower(hook, v) == [lowered |-> hook, arg |-> v]

(* The result of a reducer call: [threw, isAction, value]                   *)
assigned(context, r) ==
  [threw |-> r.threw, isAction |-> FALSE,
   value |-> IF r.threw THEN context ELSE Spread(context, r.value)]

(* Variant: the whole event, type included, is what is assigned and what   *)
(* an assign function receives.                                            *)
assignToReduce_withType(assign, context, event) ==
  IF "fn" \notin DOMAIN assign
    THEN IF "isTrue" \in DOMAIN assign
           THEN [threw |-> FALSE, isAction |-> FALSE, value |-> Spread(context, event)]
           ELSE [threw |-> FALSE, isAction |-> FALSE, value |-> Spread(context, assign)]
    ELSE assigned(context, callUser(assign, context, event))

(* (context, event) => ... returned by assignToReduce(assign)              *)
assignToReduce(assign, context, event) ==
  IF "fn" \notin DOMAIN assign
    THEN IF "isTrue" \in DOMAIN assign
           THEN [threw |-> FALSE, isAction |-> FALSE,
                 value |-> Spread(context, Rest(event))]
           ELSE [threw |-> FALSE, isAction |-> FALSE, value |-> Spread(context, assign)]
    ELSE assigned(context, callUser(assign, context, Rest(event)))

(* Variant: what the action returns becomes the context.                   *)
actionToReduce_keepsResult(action, context, event) ==
  [threw |-> callUser(action, context, event).threw, isAction |-> FALSE,
   value |-> callUser(action, context, event).value]

(* (context, event) => { action(context, event); return ACTION }           *)
actionToReduce(action, context, event) ==
  [threw |-> callUser(action, context, event).threw, isAction |-> TRUE,
   value |-> context]

reduced(r) == [threw |-> r.threw, isAction |-> FALSE, value |-> r.value]

(* reduce(next.context, event) for an entry of a compiled reducers list    *)
callReducer(reduce, context, event) ==
  IF "lowered" \in DOMAIN reduce
    THEN IF reduce.lowered = "assign"
           THEN assignToReduce(reduce.arg, context, event)
           ELSE actionToReduce(reduce.arg, context, event)
    ELSE reduced(callUser(reduce, context, event))

RECURSIVE mergeFrom(_, _, _, _)
mergeFrom(i, opts, allowedHooks, merged) ==
  IF i > Len(allowedHooks) THEN merged
  ELSE
    LET hook == allowedHooks[i]
        opt0 == IF hook \in DOMAIN opts THEN toArray(opts[hook]) ELSE <<>>
        mapped == isMappedHook(hook)
        hook1 == IF mapped THEN mappedHooks[hook] ELSE hook
        opt == IF mapped THEN [j \in 1..Len(opt0) |-> lower(hook, opt0[j])] ELSE opt0
        key == HOOK_KEYS[hook1]
        old == IF key \in DOMAIN merged THEN merged[key] ELSE <<>>
    IN mergeFrom(i + 1, opts, allowedHooks,
                 Spread(merged, [x \in {key} |-> old \o opt]))

merge(opts, allowedHooks) == mergeFrom(1, opts, allowedHooks, <<>>)

(***************************************************************************)
(* Builder functions.  Arguments of the builder are typed values           *)
(* [ty, s]; every builder returns [threw, error, value].                   *)
(***************************************************************************)
Str(s) == [ty |-> "string", s |-> s]

Ok(v) == [threw |-> FALSE, error |-> "", value |-> v]
Throw(msg) == [threw |-> TRUE, error |-> msg, value |-> <<>>]

assertString(argument) == argument.ty = "string"

createEnter(opts) == Ok([type |-> "enter"] @@ merge(opts, enterHooks))

createExit(opts) == Ok([type |-> "exit"] @@ merge(opts, exitHooks))

createTransition(event, target, opts) ==
  IF ~assertString(event)
    THEN Throw("First argument of the transition must be the name of the event")
  ELSE IF ~assertString(target)
    THEN Throw("Second argument of the transition must be the name of the target state")
  ELSE Ok([type |-> "transition", event |-> event.s, target |-> target.s]
          @@ merge(opts, transitionHooks))

createInternal(event, opts) ==
  IF ~assertString(event)
    THEN Throw("First argument of the internal transition must be the name of the event")
  ELSE Ok([type |-> "transition", event |-> event.s, internal |-> TRUE]
          @@ merge(opts, transitionHooks))

createImmediate(target, opts) ==
  IF ~assertString(target)
    THEN Throw("First argument of the immediate transition must be the name of the target state")
  ELSE Ok([type |-> "immediate", target |-> target.s]
          @@ merge(opts, transitionHooks))

isInternal(t) == "internal" \in DOMAIN t

(* One argument of state(name, ...opts) in a description: a builder call   *)
(* or a raw value that is no builder product.                              *)
evalPart(p) ==
  CASE p.call = "transition" -> createTransition(p.event, p.target, p.opts)
    [] p.call = "internal" -> createInternal(p.event, p.opts)
    [] p.call = "immediate" -> createImmediate(p.target, p.opts)
    [] p.call = "enter" -> createEnter(p.opts)
    [] p.call = "exit" -> createExit(p.opts)
    [] OTHER -> Ok(p.raw)

RECURSIVE createStateFrom(_, _, _, _)
createStateFrom(i, name, opts, acc) ==
  IF i > Len(opts) THEN Ok(acc)
  ELSE
    LET opt == opts[i]
        type == IF "type" \in DOMAIN opt THEN opt.type ELSE Undefined
    IN
    IF type = "transition" THEN
      IF ~ObjHasOwn(acc.transitions, opt.event) /\ opt.event \in ObjectPrototypeKeys
        THEN Throw("TypeError: transitions[event].push is not a function")
        ELSE
          LET old == IF ObjHasOwn(acc.transitions, opt.event)
                       THEN acc.transitions.at[opt.event] ELSE <<>>
          IN createStateFrom(i + 1, name, opts,
               [acc EXCEPT !.transitions = ObjSet(@, opt.event, Append(old, opt))])
    ELSE IF type = "immediate" THEN
      createStateFrom(i + 1, name, opts, [acc EXCEPT !.immediates = Append(@, opt)])
    ELSE IF type = "enter" THEN
      createStateFrom(i + 1, name, opts, [acc EXCEPT !.enter = Append(@, opt)])
    ELSE IF type = "exit" THEN
      createStateFrom(i + 1, name, opts, [acc EXCEPT !.exit = Append(@, opt)])
    ELSE Throw("State '" \o name \o
               "' should be passed one of enter(), exit(), transition(), immediate() or internal()")

createState(name, opts) ==
  createStateFrom(1, name, opts,
    [name |-> name, enter |-> <<>>, exit |-> <<>>,
     transitions |-> ObjEmpty, immediates |-> <<>>])

(* machine.states[target] is truthy *)
statesHas(states, target) ==
  ObjHasOwn(states, target) \/ target \in ObjectPrototypeKeys

(* All transitions of a node in Object.entries order, immediates first.    *)
RECURSIVE flattenTransitions(_, _)
flattenTransitions(transitions, i) ==
  IF i > Len(transitions.keys) THEN <<>>
  ELSE transitions.at[transitions.keys[i]] \o flattenTransitions(transitions, i + 1)

validateOrder(node) == node.immediates \o flattenTransitions(node.transitions, 1)

RECURSIVE allToValidate(_, _)
allToValidate(states, i) ==
  IF i > Len(states.keys) THEN <<>>
  ELSE validateOrder(states.at[states.keys[i]]) \o allToValidate(states, i + 1)

validate_targets(machine, ts) ==
  LET bad == {i \in 1..Len(ts) :
                ~isInternal(ts[i]) /\ ~statesHas(machine.states, ts[i].target)}
  IN IF bad = {} THEN Ok(machine)
     ELSE Throw("Invalid transition target '"
                \o ts[CHOOSE j \in bad : \A k \in bad : j <= k].target \o "'")

validate(machine) == validate_targets(machine, allToValidate(machine.states, 1))

RECURSIVE evalParts(_, _, _)
evalParts_next(parts, i, acc, r) ==
  IF r.threw THEN r ELSE evalParts(parts, i + 1, Append(acc, r.value))

(* The arguments of one state(name, ...opts) call, evaluated left to right *)
evalParts(parts, i, acc) ==
  IF i > Len(parts) THEN Ok(acc)
  ELSE evalParts_next(parts, i, acc, evalPart(parts[i]))

(* create({state, enter, exit, transition, immediate, internal}): the      *)
(* description is the sequence of its state(name, ...opts) calls.          *)
RECURSIVE createFrom(_, _, _)
createFrom_state(description, i, machine, state) ==
  IF state.threw THEN state
  ELSE createFrom(description, i + 1,
         [machine EXCEPT !.states = ObjSet(@, description[i].name, state.value)])

createFrom_opts(description, i, machine, opts) ==
  IF opts.threw THEN opts
  ELSE createFrom_state(description, i, machine,
                        createState(description[i].name, opts.value))

createFrom(description, i, machine) ==
  IF i > Len(description) THEN Ok(machine)
  ELSE createFrom_opts(description, i, machine,
                       evalParts(description[i].parts, 1, <<>>))

createMachine_validate(r) == IF r.threw THEN r ELSE validate(r.value)

createMachine(create) ==
  createMachine_validate(createFrom(create, 1, [states |-> ObjEmpty]))

(***************************************************************************)
(* Transition engine.  A runtime state is [name, context] with an optional *)
(* field final.  Results carry the sequence of hook calls made (log) so    *)
(* that which reducers ran, and in which order, can be observed.           *)
(***************************************************************************)
toEventObject(event) ==
  IF event.ty = "string" THEN [type |-> event.s] ELSE event.o

(* !transition.guards.length || transition.guards.every(g => g(ctx, ev)):  *)
(* every() stops at the first guard that returns falsy or throws.          *)
checkGuards(context, event, t) ==
  LET gs == t.guards
      r(i) == callGuard(gs[i], context, event)
      stops == {i \in 1..Len(gs) : r(i).threw \/ ~r(i).value}
  IN IF stops = {} THEN [threw |-> FALSE, value |-> TRUE]
     ELSE LET i == CHOOSE j \in stops : \A k \in stops : j <= k
          IN [threw |-> r(i).threw, value |-> FALSE]

(* Variant: the last candidate whose guards pass is taken.                 *)
firstCandidate_last(context, event, candidates) ==
  LET hit == {i \in 1..Len(candidates) :
                LET c == checkGuards(context, event, candidates[i])
                IN c.threw \/ c.value}
  IN IF hit = {} THEN 0 ELSE CHOOSE j \in hit : \A k \in hit : j >= k

passesOrThrows(c) == c.threw \/ c.value

least(hit) == IF hit = {} THEN 0 ELSE CHOOSE j \in hit : \A k \in hit : j <= k

(* Index of the first candidate whose guards pass or throw; 0 if none.     *)
firstCandidate(context, event, candidates) ==
  least({i \in 1..Len(candidates) :
           passesOrThrows(checkGuards(context, event, candidates[i]))})

RECURSIVE applyReducersFrom(_, _, _, _, _, _)
(* Variant: the value a reducer returns is not kept as the next context.   *)
applyReducersFrom_dropsResult(i, context, event, reducers, where, log) ==
  IF i > Len(reducers) THEN [threw |-> FALSE, context |-> context, log |-> log]
  ELSE
    LET result == callReducer(reducers[i], context, event)
        log1 == Append(log, [op |-> "reduce", phase |-> where.phase,
                             node |-> where.node, hook |-> reducers[i],
                             context |-> context])
    IN IF result.threw THEN [threw |-> TRUE, context |-> context, log |-> log1]
       ELSE applyReducersFrom(i + 1, context, event, reducers, where, log1)

applyReducersFrom_next(i, context, event, reducers, where, log, result) ==
  IF result.threw THEN [threw |-> TRUE, context |-> context, log |-> log]
  ELSE applyReducersFrom(i + 1,
         IF result.isAction THEN context ELSE result.value,
         event, reducers, where, log)

(* for (const reduce of reducers) { result = reduce(next.context, event);  *)
(*   if (result !== ACTION) next.context = result }                        *)
applyReducersFrom(i, context, event, reducers, where, log) ==
  IF i > Len(reducers) THEN [threw |-> FALSE, context |-> context, log |-> log]
  ELSE applyReducersFrom_next(i, context, event, reducers, where,
         Append(log, [op |-> "reduce", phase |-> where.phase, node |-> where.node,
                      hook |-> reducers[i], context |-> context]),
         callReducer(reducers[i], context, event))

applyReducers(context, event, reducers, where, log) ==
  applyReducersFrom(1, context, event, reducers, where, log)

(* for (const h of hooks) applyReducers(next, event, h.reducers)           *)
RECURSIVE reducersOf(_, _)
reducersOf(hooks, i) ==
  IF i > Len(hooks) THEN <<>> ELSE hooks[i].reducers \o reducersOf(hooks, i + 1)

RECURSIVE effectsOf_effectsFirst(_, _, _)
(* Variant: the effects of an enter are pushed before its invokes.         *)
effectsOf_effectsFirst(enters, i, event) ==
  IF i > Len(enters) THEN <<>>
  ELSE
    LET enter == enters[i]
        invokes == IF "invokes" \in DOMAIN enter THEN enter.invokes ELSE <<>>
    IN [j \in 1..Len(enter.effects) |->
          [run |-> enter.effects[j], event |-> event]]
       \o [j \in 1..Len(invokes) |->
          [run |-> [promiseEffect |-> invokes[j]], event |-> event]]
       \o effectsOf_effectsFirst(enters, i + 1, event)

(* The effects pushed at a settle: per enter, its invokes then its effects *)
RECURSIVE effectsOf(_, _, _)
effectsOf(enters, i, event) ==
  IF i > Len(enters) THEN <<>>
  ELSE
    LET enter == enters[i]
        invokes == IF "invokes" \in DOMAIN enter THEN enter.invokes ELSE <<>>
    IN [j \in 1..Len(invokes) |->
          [run |-> [promiseEffect |-> invokes[j]], event |-> event]]
       \o [j \in 1..Len(enter.effects) |->
          [run |-> enter.effects[j], event |-> event]]
       \o effectsOf(enters, i + 1, event)

(* Variant: an empty list where the code returns null.                     *)
NullEffects_emptyList == [isNull |-> FALSE, list |-> <<>>]

NullEffects == [isNull |-> TRUE, list |-> <<>>]
Effects(list) == [isNull |-> FALSE, list |-> list]

Thrown(curr, log) ==
  [threw |-> TRUE, next |-> curr, effects |-> NullEffects, log |-> log]

(* Variant: an internal transition runs the exit and enter hooks too.      *)
applyHooks_internalExits(machine, curr, event, t, log) ==
  LET target == IF isInternal(t) THEN curr.name ELSE t.target
      exited ==
        IF ObjHasOwn(machine.states, curr.name)
          THEN applyReducers(curr.context, event,
                 reducersOf(machine.states.at[curr.name].exit, 1),
                 [phase |-> "exit", node |-> curr.name], log)
          ELSE [threw |-> FALSE, context |-> curr.context, log |-> log]
      own ==
        IF exited.threw THEN exited
        ELSE applyReducers(exited.context, event, t.reducers,
               [phase |-> "transition", node |-> target], exited.log)
      entered ==
        IF own.threw THEN own
        ELSE IF ~ObjHasOwn(machine.states, target) THEN [own EXCEPT !.threw = TRUE]
        ELSE applyReducers(own.context, event,
               reducersOf(machine.states.at[target].enter, 1),
               [phase |-> "enter", node |-> target], own.log)
  IN [threw |-> entered.threw,
      next |-> [curr EXCEPT !.name = target, !.context = entered.context],
      log |-> entered.log]

(* Variant: the enter reducers of the target are not run before its        *)
(* immediates are tried.                                                   *)
applyHooks_enter_skipsEnter(machine, event, t, target, own) ==
  IF own.threw THEN own
  ELSE IF ~ObjHasOwn(machine.states, target) THEN [own EXCEPT !.threw = TRUE]
  ELSE own

(* Variant: the exit hooks are not run when the target is the current      *)
(* state.                                                                  *)
applyHooks_exit_skipsSelf(machine, curr, event, t, log) ==
  IF statesHas(machine.states, curr.name) /\ ~isInternal(t)
     /\ t.target # curr.name
    THEN IF ObjHasOwn(machine.states, curr.name)
           THEN applyReducers(curr.context, event,
                  reducersOf(machine.states.at[curr.name].exit, 1),
                  [phase |-> "exit", node |-> curr.name], log)
           ELSE [threw |-> TRUE, context |-> curr.context, log |-> log]
    ELSE [threw |-> FALSE, context |-> curr.context, log |-> log]

(* The first half of applyTransition: exit hooks of the current node (not  *)
(* for an internal transition), next.name = target, the transition's own   *)
(* reducers, enter hooks of the target node (not for an internal one).     *)
(* Each stage is [threw, context, log]; the result is [threw, next, log].  *)
applyHooks_exit(machine, curr, event, t, log) ==
  IF statesHas(machine.states, curr.name) /\ ~isInternal(t)
    THEN IF ObjHasOwn(machine.states, curr.name)
           THEN applyReducers(curr.context, event,
                  reducersOf(machine.states.at[curr.name].exit, 1),
                  [phase |-> "exit", node |-> curr.name], log)
           ELSE [threw |-> TRUE, context |-> curr.context, log |-> log]
    ELSE [threw |-> FALSE, context |-> curr.context, log |-> log]

applyHooks_own(event, t, target, exited) ==
  IF exited.threw THEN exited
  ELSE applyReducers(exited.context, event, t.reducers,
         [phase |-> "transition", node |-> target], exited.log)

applyHooks_enter(machine, event, t, target, own) ==
  IF own.threw THEN own
  ELSE IF ~ObjHasOwn(machine.states, target) THEN [own EXCEPT !.threw = TRUE]
  ELSE IF ~isInternal(t)
    THEN applyReducers(own.context, event,
           reducersOf(machine.states.at[target].enter, 1),
           [phase |-> "enter", node |-> target], own.log)
    ELSE own

applyHooks_next(curr, target, entered) ==
  [threw |-> entered.threw,
   next |-> [curr EXCEPT !.name = target, !.context = entered.context],
   log |-> entered.log]

applyHooks_to(machine, curr, event, t, target, log) ==
  applyHooks_next(curr, target,
    applyHooks_enter(machine, event, t, target,
      applyHooks_own(event, t, target,
        applyHooks_exit(machine, curr, event, t, log))))

applyHooks(machine, curr, event, t, log) ==
  applyHooks_to(machine, curr, event, t,
                IF isInternal(t) THEN curr.name ELSE t.target, log)

RECURSIVE applyTransition(_, _, _, _, _)
(* Variant: the effects of a state left through an immediate are kept in   *)
(* front of the effects of the states after it.                            *)
applyTransition_keepsEffects(machine, curr, event, t, log) ==
  LET hooked == applyHooks(machine, curr, event, t, log) IN
  IF hooked.threw THEN Thrown(curr, hooked.log)
  ELSE
  LET next == hooked.next
      nextState == machine.states.at[next.name]
      i == firstCandidate(next.context, event, nextState.immediates)
      own == IF isInternal(t) THEN <<>> ELSE effectsOf(nextState.enter, 1, event)
  IN
  IF i # 0
    THEN LET rest == applyTransition(machine, next, event,
                                     nextState.immediates[i], hooked.log)
         IN IF rest.threw THEN rest
            ELSE [rest EXCEPT !.effects = Effects(own \o rest.effects.list)]
    ELSE
      LET final == Len(nextState.transitions.keys) = 0
                   /\ Len(nextState.immediates) = 0
          settled == IF final THEN [final |-> TRUE] @@ next ELSE next
      IN [threw |-> FALSE,
          next |-> settled,
          effects |-> IF isInternal(t) THEN NullEffects ELSE Effects(own),
          log |-> hooked.log]

(* Variant: a state without transitions is final whatever its immediates.  *)
applyTransition_settle_ignoresImmediates(machine, curr, event, t, hooked, nextState, i) ==
  IF i # 0
    THEN IF checkGuards(hooked.next.context, event, nextState.immediates[i]).threw
           THEN Thrown(curr, hooked.log)
           ELSE applyTransition(machine, hooked.next, event,
                                nextState.immediates[i], hooked.log)
    ELSE [threw |-> FALSE,
          next |-> IF Len(nextState.transitions.keys) = 0
                     THEN [final |-> TRUE] @@ hooked.next ELSE hooked.next,
          effects |-> IF isInternal(t) THEN NullEffects
                      ELSE Effects(effectsOf(nextState.enter, 1, event)),
          log |-> hooked.log]

(* The second half: the immediates of the state reached are tried in       *)
(* order; the first that passes is applied in turn, and when none passes   *)
(* the state is marked final if it has no way out, and the effects of its  *)
(* enter hooks are returned (null after an internal transition).           *)
applyTransition_settle(machine, curr, event, t, hooked, nextState, i) ==
  IF i # 0
    THEN IF checkGuards(hooked.next.context, event, nextState.immediates[i]).threw
           THEN Thrown(curr, hooked.log)
           ELSE applyTransition(machine, hooked.next, event,
                                nextState.immediates[i], hooked.log)
    ELSE [threw |-> FALSE,
          next |-> IF Len(nextState.transitions.keys) = 0
                      /\ Len(nextState.immediates) = 0
                     THEN [final |-> TRUE] @@ hooked.next ELSE hooked.next,
          effects |-> IF isInternal(t) THEN NullEffects
                      ELSE Effects(effectsOf(nextState.enter, 1, event)),
          log |-> hooked.log]

applyTransition_immediates(machine, curr, event, t, hooked) ==
  IF hooked.threw THEN Thrown(curr, hooked.log)
  ELSE applyTransition_settle(machine, curr, event, t, hooked,
         machine.states.at[hooked.next.name],
         firstCandidate(hooked.next.context, event,
                        machine.states.at[hooked.next.name].immediates))

applyTransition(machine, curr, event, t, log) ==
  applyTransition_immediates(machine, curr, event, t,
                             applyHooks(machine, curr, event, t, log))

(* for (const candidate of candidates) if (checkGuards(...)) return ...    *)
transition_candidate(machine, state, eventObj, candidates, i) ==
  IF i = 0
    THEN [threw |-> FALSE, next |-> state, effects |-> NullEffects, log |-> <<>>]
  ELSE IF checkGuards(state.context, eventObj, candidates[i]).threw
    THEN Thrown(state, <<>>)
  ELSE applyTransition(machine, state, eventObj, candidates[i], <<>>)

(* Variant: a state for which nothing matches is returned as final.        *)
transition_lookup_marksFinal(machine, state, eventObj, transitions) ==
  IF ~ObjHasOwn(transitions, eventObj.type)
    THEN IF eventObj.type \in ObjectPrototypeKeys
           THEN Thrown(state, <<>>)
           ELSE [threw |-> FALSE, next |-> [final |-> TRUE] @@ state,
                 effects |-> NullEffects, log |-> <<>>]
    ELSE transition_candidate(machine, state, eventObj,
           transitions.at[eventObj.type],
           firstCandidate(state.context, eventObj, transitions.at[eventObj.type]))

(* Variant: an event that matches nothing empties the context.             *)
transition_lookup_resetsContext(machine, state, eventObj, transitions) ==
  IF ~ObjHasOwn(transitions, eventObj.type)
    THEN IF eventObj.type \in ObjectPrototypeKeys
           THEN Thrown(state, <<>>)
           ELSE [threw |-> FALSE, next |-> [state EXCEPT !.context = <<>>],
                 effects |-> NullEffects, log |-> <<>>]
    ELSE transition_candidate(machine, state, eventObj,
           transitions.at[eventObj.type],
           firstCandidate(state.context, eventObj, transitions.at[eventObj.type]))

transition_lookup(machine, state, eventObj, transitions) ==
  IF ~ObjHasOwn(transitions, eventObj.type)
    THEN IF eventObj.type \in ObjectPrototypeKeys
           THEN Thrown(state, <<>>)   \* candidates is not iterable
           ELSE [threw |-> FALSE, next |-> state, effects |-> NullEffects,
                 log |-> <<>>]
    ELSE transition_candidate(machine, state, eventObj,
           transitions.at[eventObj.type],
           firstCandidate(state.context, eventObj, transitions.at[eventObj.type]))

(* Variant: no initial transition is made, the state keeps the null name.  *)
transition_from_noInitial(machine, state, eventObj) ==
  transition_lookup(machine, state, eventObj,
    IF ObjHasOwn(machine.states, state.name)
      THEN machine.states.at[state.name].transitions
      ELSE ObjEmpty)

transition_from(machine, state, eventObj) ==
  IF ~Truthy(state.name) /\ eventObj.type = Null /\ Len(machine.states.keys) > 0
    THEN applyTransition(machine, state, eventObj,
           createImmediate(Str(machine.states.keys[1]), <<>>).value, <<>>)
  ELSE transition_lookup(machine, state, eventObj,
         IF ObjHasOwn(machine.states, state.name)
           THEN machine.states.at[state.name].transitions
           ELSE ObjEmpty)

(* transition(machine, state, event): [threw, next, effects, log]          *)
transition(machine, state, event) ==
  transition_from(machine, state, toEventObject(event))

(***************************************************************************)
(* Effect runtime and service.  The session is threaded through the        *)
(* synchronous call tree as a record S:                                    *)
(*   machine, state, prev, pendingEffects, runningEffects  (service object)*)
(*   cbs, running                       (closure variables of the service) *)
(*   heap      the effect handles ever created; lists hold heap indexes    *)
(*   log       what the call tree did, in order                            *)
(*   threw     an exception is propagating                                 *)
(* A handle is [run, event] plus the fields runEffects adds (disposed,     *)
(* hasDispose for effect.dispose), the closure variable promiseDisposed    *)
(* and the promise status of promiseEffect, and bookkeeping: origin (the   *)
(* node it was created for), started / cleaned (call counts), got (the     *)
(* arguments run received).                                                *)
(* An effect function is [name, sends, returns, cleanupSends, late]: the   *)
(* events it sends through its send argument while run executes, what run  *)
(* returns ("cleanup", "nothing", "promise"), the events its cleanup sends *)
(* through the same send argument, and the events it may send later.       *)
(***************************************************************************)
Log(S, entry) == [S EXCEPT !.log = Append(@, entry)]

isPromiseEffect(run) == "promiseEffect" \in DOMAIN run

(* What effect.run(...) returns. promiseEffect always returns a function.  *)
returned(run) == IF isPromiseEffect(run) THEN "cleanup" ELSE run.returns

(* Variant: a handle carries the initial event whatever was dispatched.    *)
newHandle_initialEvent(effect, origin) ==
  [run |-> effect.run, event |-> [type |-> Null], origin |-> origin,
   disposed |-> FALSE, hasDispose |-> FALSE, promiseDisposed |-> FALSE,
   promise |-> "none", started |-> 0, cleaned |-> 0, got |-> <<>>]

newHandle(effect, origin) ==
  [run |-> effect.run, event |-> effect.event, origin |-> origin,
   disposed |-> FALSE, hasDispose |-> FALSE, promiseDisposed |-> FALSE,
   promise |-> "none", started |-> 0, cleaned |-> 0, got |-> <<>>]

(* service.pendingEffects = effects, for the handles applyTransition made  *)
setPending(S, list, origin, lvl) ==
  LET n == Len(S.heap)
      hs == <<>> \o [j \in 1..Len(list) |-> n + j]
  IN Log([S EXCEPT !.heap = @ \o [j \in 1..Len(list) |-> newHandle(list[j], origin)],
                   !.pendingEffects = hs],
         [op |-> "pending", hs |-> hs, lvl |-> lvl])

RECURSIVE send(_, _, _)
RECURSIVE safeSend(_, _, _, _)
RECURSIVE sendAll(_, _, _, _, _)
RECURSIVE effectRun(_, _, _, _)
RECURSIVE runEffectsFrom(_, _, _, _, _, _)
RECURSIVE effectDispose(_, _, _)
RECURSIVE cleanEffectsFrom(_, _, _, _)
RECURSIVE serviceRunEffects(_, _)

(* const safeSend = (...args) => effect.disposed ? warning : send(...args) *)
safeSend(S, h, event, lvl) ==
  IF S.heap[h].disposed
    THEN Log(S, [op |-> "warn", what |-> "send after cleanup", h |-> h,
                 lvl |-> lvl])
    ELSE send(S, event, lvl)

(* The user function sends events one after the other; an exception from   *)
(* send is not caught by it.  An entry [service |-> event] is an event the *)
(* function hands to service.send itself, which its closure can hold,      *)
(* instead of to the send argument it was given.                           *)
sendAll(S, h, events, i, lvl) ==
  IF S.threw \/ i > Len(events) THEN S
  ELSE sendAll(IF "service" \in DOMAIN events[i]
                 THEN send(S, events[i].service, lvl)
                 ELSE safeSend(S, h, events[i], lvl),
               h, events, i + 1, lvl)

(* effect.run(state.context, effect.event, safeSend)                       *)
effectRun(S, h, state, lvl) ==
  LET e == S.heap[h]
      S1 == Log([S EXCEPT !.heap[h].started = @ + 1,
                          !.heap[h].got = [context |-> state.context,
                                           event |-> e.event]],
                [op |-> "start", h |-> h, lvl |-> lvl])
  IN IF isPromiseEffect(e.run)
       THEN IF e.run.promiseEffect.fn = "throw"
              THEN [S1 EXCEPT !.threw = TRUE]
              ELSE [S1 EXCEPT !.heap[h].promise = "pending"]
       ELSE IF e.run.name = "throw"
              THEN [S1 EXCEPT !.threw = TRUE]
              ELSE sendAll(S1, h, e.run.sends, 1, lvl + 1)

(* Variant: an effect that returned a promise is retained too.             *)
runEffectsFrom_returned_keepsPromise(S1, effects, state, i, acc, lvl, dispose) ==
  IF S1.threw THEN [s |-> S1, runningEffects |-> acc]
  ELSE IF dispose \in {"cleanup", "promise"}
    THEN runEffectsFrom(
           Log([S1 EXCEPT !.heap[effects[i]].hasDispose = TRUE],
               [op |-> "retained", h |-> effects[i], lvl |-> lvl]),
           effects, state, i + 1, Append(acc, effects[i]), lvl)
  ELSE runEffectsFrom(S1, effects, state, i + 1, acc, lvl)

(* runEffects(effects, state, send): [s, runningEffects]                   *)
runEffectsFrom_returned(S1, effects, state, i, acc, lvl, dispose) ==
  IF S1.threw THEN [s |-> S1, runningEffects |-> acc]
  ELSE IF dispose = "promise"
    THEN runEffectsFrom(
           Log(S1, [op |-> "warn", what |-> "async effect", h |-> effects[i],
                    lvl |-> lvl]),
           effects, state, i + 1, acc, lvl)
  ELSE IF dispose = "cleanup"
    THEN runEffectsFrom(
           Log([S1 EXCEPT !.heap[effects[i]].hasDispose = TRUE],
               [op |-> "retained", h |-> effects[i], lvl |-> lvl]),
           effects, state, i + 1, Append(acc, effects[i]), lvl)
  ELSE runEffectsFrom(S1, effects, state, i + 1, acc, lvl)

runEffectsFrom(S, effects, state, i, acc, lvl) ==
  IF S.threw \/ i > Len(effects) THEN [s |-> S, runningEffects |-> acc]
  ELSE runEffectsFrom_returned(effectRun(S, effects[i], state, lvl),
         effects, state, i, acc, lvl, returned(S.heap[effects[i]].run))

runEffects(S, effects, state, lvl) ==
  runEffectsFrom(S, effects, state, 1, <<>>, lvl)

(* Variant: effect.disposed is set after the user cleanup has returned.    *)
effectDispose_cleanupFirst(S, h, lvl) ==
  LET S1 == Log([S EXCEPT !.heap[h].cleaned = @ + 1],
                [op |-> "dispose", h |-> h, lvl |-> lvl])
      S2 == IF isPromiseEffect(S.heap[h].run)
              THEN [S1 EXCEPT !.heap[h].promiseDisposed = TRUE]
              ELSE sendAll(S1, h, S.heap[h].run.cleanupSends, 1, lvl + 1)
  IN [S2 EXCEPT !.heap[h].disposed = TRUE]

(* effect.dispose = () => { effect.disposed = true; return dispose(); }    *)
effectDispose(S, h, lvl) ==
  LET S1 == Log([S EXCEPT !.heap[h].disposed = TRUE, !.heap[h].cleaned = @ + 1],
                [op |-> "dispose", h |-> h, lvl |-> lvl])
  IN IF isPromiseEffect(S.heap[h].run)
       THEN [S1 EXCEPT !.heap[h].promiseDisposed = TRUE]
       ELSE sendAll(S1, h, S.heap[h].run.cleanupSends, 1, lvl + 1)

(* cleanEffects(runningEffects): effect.dispose?.() for each, returns []   *)
cleanEffectsFrom(S, list, i, lvl) ==
  IF S.threw \/ i > Len(list) THEN S
  ELSE cleanEffectsFrom(
         IF S.heap[list[i]].hasDispose THEN effectDispose(S, list[i], lvl) ELSE S,
         list, i + 1, lvl)

cleanEffects(S, runningEffects, lvl) == cleanEffectsFrom(S, runningEffects, 1, lvl)

(* function runEffects() of createService                                  *)
serviceRunEffects_ran(r) ==
  IF r.s.threw THEN r.s ELSE [r.s EXCEPT !.runningEffects = r.runningEffects]

serviceRunEffects_cleaned(S1, lvl) ==
  IF S1.threw THEN S1
  ELSE serviceRunEffects_ran(
         runEffects([S1 EXCEPT !.runningEffects = <<>>],
                    S1.pendingEffects, S1.state, lvl))

serviceRunEffects(S, lvl) ==
  serviceRunEffects_cleaned(cleanEffects(S, S.runningEffects, lvl), lvl)

RECURSIVE stop(_)
RECURSIVE unsubscribe(_, _)
RECURSIVE notifyFrom(_, _, _, _, _)

(* cb(state): what a listener does when it is called.  sub1 and sub2 only  *)
(* record the state; dropper calls the function subscribe(sub2) returned,  *)
(* stopper calls service.stop().                                           *)
callListener(S, cb, lvl) ==
  IF cb = "dropper"
    THEN Log(unsubscribe(S, "sub2"), [op |-> "unsubscribed", fn |-> "sub2", lvl |-> lvl])
  ELSE IF cb = "stopper"
    THEN Log(stop(S), [op |-> "stopped", lvl |-> lvl])
  ELSE S

(* for (const cb of cbs) cb(state): the loop walks the array that cbs held *)
(* when it began; unsubscribe and stop bind cbs to another array.          *)
notifyFrom(S, list, i, state, lvl) ==
  IF S.threw \/ i > Len(list) THEN S
  ELSE notifyFrom(
         callListener(Log(S, [op |-> "notify", cb |-> list[i], state |-> state,
                              lvl |-> lvl]),
                      list[i], lvl),
         list, i + 1, state, lvl)

notify(S, state, lvl) == notifyFrom(S, S.cbs, 1, state, lvl)

(* service.send(event), after transition has returned r                   *)
send_notify(S3, next, lvl) ==
  IF S3.threw THEN Log(S3, [op |-> "sendThrow", lvl |-> lvl])
  ELSE Log(notify(S3, next, lvl), [op |-> "sendEnd", lvl |-> lvl])

send_effects(S2, r, lvl) ==
  send_notify(
    IF r.effects.isNull THEN S2
    ELSE serviceRunEffects(setPending(S2, r.effects.list, r.next.name, lvl), lvl),
    r.next, lvl)

(* Variant: the subscribers are called although transition threw.          *)
send_transitioned_notifiesOnThrow(S0, from, r, lvl) ==
  IF r.threw
    THEN Log([notify([S0 EXCEPT !.log = @ \o r.log], S0.state, lvl)
                EXCEPT !.threw = TRUE],
             [op |-> "sendThrow", lvl |-> lvl])
  ELSE send_effects(
         Log([S0 EXCEPT !.log = @ \o r.log, !.state = r.next],
             [op |-> "transitioned", lvl |-> lvl, from |-> from,
              next |-> r.next, effects |-> r.effects]),
         r, lvl)

send_transitioned(S0, from, r, lvl) ==
  IF r.threw
    THEN Log([S0 EXCEPT !.log = @ \o r.log, !.threw = TRUE],
             [op |-> "sendThrow", lvl |-> lvl])
  ELSE send_effects(
         Log([S0 EXCEPT !.log = @ \o r.log, !.state = r.next],
             [op |-> "transitioned", lvl |-> lvl, from |-> from,
              next |-> r.next, effects |-> r.effects]),
         r, lvl)

(* service.send(event)                                                     *)
send(S, event, lvl) ==
  IF ~S.running
    THEN Log(S, [op |-> "sendIgnored", lvl |-> lvl, event |-> event])
  ELSE send_transitioned(
         Log([S EXCEPT !.prev = <<S.state>>],
             [op |-> "sendBegin", lvl |-> lvl, event |-> event]),
         S.state, transition(S.machine, S.state, event), lvl)

stop_cleaned(S2) == IF S2.threw THEN S2 ELSE [S2 EXCEPT !.runningEffects = <<>>]

(* service.stop()                                                          *)
stop(S) ==
  stop_cleaned(
    cleanEffects([S EXCEPT !.running = FALSE, !.cbs = <<>>, !.pendingEffects = <<>>],
                 S.runningEffects, 0))

(* service.subscribe(fn) and the function it returns                       *)
subscribe(S, fn) == [S EXCEPT !.cbs = Append(@, fn)]

unsubscribe(S, fn) == [S EXCEPT !.cbs = SelectSeq(@, LAMBDA f : f # fn)]

NoService ==
  [machine |-> [states |-> ObjEmpty], state |-> [name |-> Null, context |-> <<>>],
   prev |-> <<>>, pendingEffects |-> <<>>, runningEffects |-> <<>>,
   cbs |-> <<>>, running |-> FALSE, heap |-> <<>>, log |-> <<>>, threw |-> FALSE]

(* createService(machineDescription, context): the session, or threw       *)
createService_transitioned(S0, from, r) ==
  IF r.threw THEN [S0 EXCEPT !.log = r.log, !.threw = TRUE]
  ELSE serviceRunEffects(
         setPending(
           Log([S0 EXCEPT !.log = r.log, !.state = r.next, !.running = TRUE],
               [op |-> "transitioned", lvl |-> 0, from |-> from, next |-> r.next,
                effects |-> r.effects]),
           r.effects.list, r.next.name, 0),
         0)

createService_machine(m, initialTransitionState, initialTransitionEvent) ==
  IF m.threw
    THEN Log([NoService EXCEPT !.threw = TRUE], [op |-> "error", error |-> m.error])
  ELSE createService_transitioned([NoService EXCEPT !.machine = m.value],
         initialTransitionState,
         transition(m.value, initialTransitionState, initialTransitionEvent))

(* Variant: the initial transition starts from an empty context.           *)
createService_ignoresContext(machineDescription, context) ==
  createService_machine(createMachine(machineDescription),
                        [name |-> Null, context |-> <<>>],
                        [ty |-> "object", o |-> [type |-> Null]])

createService(machineDescription, context) ==
  createService_machine(createMachine(machineDescription),
                        [name |-> Null, context |-> context],
                        [ty |-> "object", o |-> [type |-> Null]])

(* Variant: the settled value is not passed on in the event.               *)
promiseSettled_noPayload(S, h, outcome, v) ==
  LET S0 == [S EXCEPT !.heap[h].promise = "settled"]
      ev == IF outcome = "fulfilled" THEN [ty |-> "object", o |-> [type |-> "done"]]
            ELSE [ty |-> "object", o |-> [type |-> "error"]]
  IN IF S0.heap[h].promiseDisposed THEN S0
     ELSE [safeSend(S0, h, ev, 0) EXCEPT !.threw = FALSE]

(* promiseEffect: Promise.resolve(fn(context, event))                      *)
(*   .then(data => { if (!disposed) send({type: "done", data}) })          *)
(*   .catch(error => { if (!disposed) send({type: "error", error}) })      *)
(* run when the promise of handle h settles.  catch() also receives an     *)
(* exception thrown by the then-handler; one thrown by the catch-handler   *)
(* is an unhandled rejection and reaches no caller.                        *)
promiseEffect_catch(T, h, error) ==
  [(IF ~T.heap[h].promiseDisposed
      THEN safeSend(T, h, [ty |-> "object", o |-> [type |-> "error", error |-> error]], 0)
      ELSE T)
   EXCEPT !.threw = FALSE]

promiseEffect_thenDone(S1, h) ==
  IF S1.threw THEN promiseEffect_catch([S1 EXCEPT !.threw = FALSE], h, "Error")
  ELSE S1

promiseEffect_then(S0, h, data) ==
  promiseEffect_thenDone(
    IF ~S0.heap[h].promiseDisposed
      THEN safeSend(S0, h, [ty |-> "object", o |-> [type |-> "done", data |-> data]], 0)
      ELSE S0,
    h)

promiseSettled(S, h, outcome, v) ==
  IF outcome = "fulfilled"
    THEN promiseEffect_then([S EXCEPT !.heap[h].promise = "settled"], h, v)
    ELSE promiseEffect_catch([S EXCEPT !.heap[h].promise = "settled"], h, v)

(***************************************************************************)
(* Machine descriptions                                                    *)
(***************************************************************************)
Obj(o) == [ty |-> "object", o |-> o]

Transition(event, target, opts) ==
  [call |-> "transition", event |-> Str(event), target |-> Str(target), opts |-> opts]
Internal(event, opts) == [call |-> "internal", event |-> Str(event), opts |-> opts]
Immediate(target, opts) == [call |-> "immediate", target |-> Str(target), opts |-> opts]
Enter(opts) == [call |-> "enter", opts |-> opts]
Exit(opts) == [call |-> "exit", opts |-> opts]
State(name, parts) == [name |-> name, parts |-> parts]

NoOpts == <<>>

Effect(name, sends, returns, cleanupSends, late) ==
  [name |-> name, sends |-> sends, returns |-> returns,
   cleanupSends |-> cleanupSends, late |-> late]

(* Two transitions on the same event with different guards; entering c     *)
(* starts an effect that returns nothing and one that returns a promise.   *)
GuardMachine ==
  << State("a", << Transition("go", "b",
                     [guard |-> [fn |-> "eventTruthy", key |-> "ok"],
                      assign |-> [via |-> "first"]]),
                   Transition("go", "c",
                     [guard |-> [fn |-> "eventTruthy", key |-> "alt"],
                      assign |-> [via |-> "second"]]),
                   Transition("next", "c", NoOpts) >>),
     State("b", <<>>),
     State("c", << Enter([effect |-> [many |->
                            << Effect("fire", <<>>, "nothing", <<>>, <<>>),
                               Effect("async", <<>>, "promise", <<>>, <<>>) >>]]),
                   Transition("back", "a", NoOpts) >>) >>

(* exit assign, transition reducer, enter reducer reading the context.     *)
OrderMachine ==
  << State("a", << Exit([assign |-> [x |-> "1"]]),
                   Transition("go", "b",
                     [reduce |-> [fn |-> "concat", key |-> "t", prefix |-> "t-",
                                  from |-> "x"]]) >>),
     State("b", << Enter([reduce |-> [fn |-> "concat", key |-> "name",
                                      prefix |-> "b-", from |-> "x"]]),
                   Transition("back", "a", NoOpts) >>) >>

ping ==
  Effect("ping", << Obj([type |-> "assign", fourthEntered |-> "ping"]) >>,
         "cleanup", << Str("ping") >>, << Str("goToFinal") >>)

ComplexMachine ==
  << State("initial", << Transition("goToSecond", "second",
                           [reduce |-> [fn |-> "payload"]]) >>),
     State("second", << Immediate("third", NoOpts) >>),
     State("third", << Immediate("final", [guard |-> [fn |-> "never"]]),
                       Transition("goToFourth", "fourth",
                           [reduce |-> [fn |-> "payload"]]) >>),
     State("fourth", << Enter([effect |-> ping]),
                        Internal("assign", [reduce |-> [fn |-> "payload"]]),
                        Transition("goToFinal", "final",
                           [reduce |-> [fn |-> "payload"]]),
                        Exit([assign |-> [fourthExited |-> "pong"]]) >>),
     State("final", << Enter([reduce |-> [fn |-> "set", key |-> "y", val |-> "2"]]) >>) >>

InvokeMachine ==
  << State("a", << Transition("go", "b", NoOpts) >>),
     State("b", << Enter([invoke |-> [fn |-> "save"]]),
                   Transition("done", "next", [assign |-> [isTrue |-> TRUE]]),
                   Transition("error", "a", [assign |-> [isTrue |-> TRUE]]) >>),
     State("next", <<>>) >>

(* idle -> A, A -> B and B -> C by immediates; A has an internal           *)
(* transition that can make its immediate pass.                            *)
ChainMachine ==
  << State("idle", << Transition("go", "A", [assign |-> [isTrue |-> TRUE]]) >>),
     State("A", << Enter([effect |-> Effect("effA", <<>>, "cleanup", <<>>, <<>>),
                          assign |-> [enteredA |-> "yes"]]),
                   Exit([assign |-> [exitedA |-> "yes"]]),
                   Internal("poke", [assign |-> [isTrue |-> TRUE]]),
                   Immediate("B", [guard |-> [fn |-> "contextEq", key |-> "k",
                                              val |-> "go"]]),
                   Transition("reset", "idle", [assign |-> [k |-> "stay"]]) >>),
     State("B", << Enter([effect |-> Effect("effB", <<>>, "cleanup", <<>>, <<>>),
                          invoke |-> [fn |-> "loadB"],
                          assign |-> [enteredB |-> "yes"]]),
                   Exit([assign |-> [exitedB |-> "yes"]]),
                   Immediate("C", [action |-> [fn |-> "unused"]]) >>),
     State("C", << Enter([effect |-> Effect("effC", <<>>, "cleanup", <<>>, <<>>),
                          assign |-> [enteredC |-> "yes"]]),
                   Immediate("idle", [guard |-> [fn |-> "never"]]),
                   Transition("reset", "idle", [assign |-> [k |-> "stay"]]) >>) >>

(* An effect that sends an event causing an external transition while it   *)
(* is being started.                                                       *)
ReentrantMachine ==
  << State("r0", << Transition("start", "p", NoOpts) >>),
     State("p", << Enter([effect |-> [many |->
                            << Effect("keep", <<>>, "cleanup", <<>>, <<>>),
                               Effect("jump", << Str("go") >>, "cleanup",
                                      << Str("start") >>, <<>>) >>]]),
                   Transition("go", "q", NoOpts) >>),
     State("q", << Enter([effect |-> Effect("hold", <<>>, "cleanup", <<>>, <<>>)]),
                   Transition("back", "r0", NoOpts) >>) >>

(* Hooks and effects that throw; b and e are dead ends that are not final. *)
ThrowMachine ==
  << State("a", << Enter([effect |-> Effect("held", <<>>, "cleanup", <<>>, <<>>)]),
                   Transition("g", "b", [guard |-> [fn |-> "throw"]]),
                   Transition("r", "b", [reduce |-> [fn |-> "throw"]]),
                   Transition("as", "b", [assign |-> [fn |-> "throw"]]),
                   Transition("ac", "b", [action |-> [fn |-> "throw"]]),
                   Transition("en", "d", NoOpts),
                   Transition("fx", "c", NoOpts),
                   Transition("ok", "b", NoOpts),
                   Transition("in", "e", NoOpts) >>),
     State("b", << Immediate("a", [guard |-> [fn |-> "never"]]) >>),
     State("c", << Enter([effect |-> [many |->
                            << Effect("first", <<>>, "cleanup", <<>>, <<>>),
                               Effect("throw", <<>>, "nothing", <<>>, <<>>) >>]]),
                   Internal("note", NoOpts) >>),
     State("d", << Enter([reduce |-> [fn |-> "throw"]]),
                   Internal("note", NoOpts) >>),
     State("e", << Internal("note", [assign |-> [noted |-> "yes"]]) >>) >>

(* A description that declares no state.                                   *)
EmptyMachine == <<>>

(* Targets that no state(...) call of the description registers.           *)
MissingTargetMachine ==
  << State("a", << Transition("go", "missing", NoOpts) >>),
     State("b", <<>>) >>

MissingImmediateMachine ==
  << State("a", << Transition("go", "b", NoOpts) >>),
     State("b", << Internal("note", NoOpts),
                   Immediate("gone", [guard |-> [fn |-> "never"]]) >>) >>

(* Targets that are no state of the description but name a property every  *)
(* object inherits.                                                        *)
ProtoTargetMachine ==
  << State("a", << Transition("go", "constructor", NoOpts),
                   Transition("hop", "b", NoOpts) >>),
     State("b", << Immediate("valueOf", NoOpts) >>) >>

(* The first state is left through an immediate at once; the state reached *)
(* starts an effect that sends an event while it is being started.         *)
BootMachine ==
  << State("boot", << Enter([assign |-> [booted |-> "yes"],
                             effect |-> Effect("effBoot", <<>>, "cleanup", <<>>, <<>>)]),
                      Exit([assign |-> [left |-> "yes"]]),
                      Immediate("home", NoOpts) >>),
     State("home", << Enter([assign |-> [arrived |-> "yes"],
                             effect |-> Effect("kick", << Str("note") >>, "cleanup",
                                               <<>>, <<>>)]),
                      Internal("note", [assign |-> [noted |-> "yes"]]),
                      Transition("go", "boot", NoOpts) >>) >>

(* A state with an invoke that can be left while the promise is pending.   *)
InvokeLeaveMachine ==
  << State("w", << Enter([invoke |-> [fn |-> "load"]]),
                   Transition("leave", "x", NoOpts),
                   Transition("done", "y", [assign |-> [isTrue |-> TRUE]]),
                   Transition("error", "y", [assign |-> [isTrue |-> TRUE]]) >>),
     State("x", << Transition("done", "y", [assign |-> [isTrue |-> TRUE]]),
                   Transition("error", "y", [assign |-> [isTrue |-> TRUE]]) >>),
     State("y", <<>>) >>

(* As ReentrantMachine, with an invoke started before the effect that      *)
(* sends.                                                                  *)
ReentrantInvokeMachine ==
  << State("r0", << Transition("start", "p", NoOpts) >>),
     State("p", << Enter([invoke |-> [fn |-> "load"],
                          effect |-> Effect("jump", << Str("go") >>, "cleanup",
                                            <<>>, <<>>)]),
                   Transition("go", "q", NoOpts) >>),
     State("q", << Enter([effect |-> Effect("hold", <<>>, "cleanup", <<>>, <<>>)]),
                   Transition("done", "z", [assign |-> [isTrue |-> TRUE]]),
                   Transition("error", "z", [assign |-> [isTrue |-> TRUE]]) >>),
     State("z", <<>>) >>

(* A state with a transition to itself; its effects may call send later,   *)
(* one of them returns no cleanup function.                                *)
SelfMachine ==
  << State("s", << Enter([assign |-> [entered |-> "yes"],
                          effect |-> [many |->
                            << Effect("beat", <<>>, "cleanup", <<>>, << Str("tick") >>),
                               Effect("loose", <<>>, "nothing", <<>>,
                                      << Str("tick") >>) >>]]),
                   Exit([assign |-> [exited |-> "yes"]]),
                   Transition("again", "s", [assign |-> [entered |-> "no"]]),
                   Transition("leave", "t", NoOpts),
                   Transition("tick", "t", NoOpts) >>),
     State("t", << Transition("tick", "u", NoOpts) >>),
     State("u", <<>>) >>

(* An effect whose cleanup function calls service.send; an invoke whose    *)
(* done event meets a reducer that throws; a final state with an effect.   *)
RawMachine ==
  << State("a", << Enter([invoke |-> [fn |-> "load"],
                          effect |-> Effect("raw", <<>>, "cleanup",
                                            << [service |-> Str("go")] >>, <<>>)]),
                   Transition("go", "b", NoOpts),
                   Transition("done", "c", [reduce |-> [fn |-> "throw"]]),
                   Transition("error", "c", NoOpts) >>),
     State("b", << Enter([effect |-> Effect("hold", <<>>, "cleanup", <<>>, <<>>)]),
                   Transition("go", "c", NoOpts) >>),
     State("c", << Enter([effect |-> Effect("last", <<>>, "cleanup", <<>>, <<>>)]) >>) >>

Descriptions ==
  << GuardMachine, OrderMachine, ComplexMachine, InvokeMachine, ChainMachine,
     ReentrantMachine, ThrowMachine, EmptyMachine, MissingTargetMachine,
     MissingImmediateMachine, ProtoTargetMachine, BootMachine, InvokeLeaveMachine,
     ReentrantInvokeMachine, SelfMachine, RawMachine >>

InitialContexts == { <<>>, [a |-> "1"] }

(* The events a caller sends to a service created from Descriptions[d]     *)
EventsFor ==
  << { Str("go"), Obj([type |-> "go", ok |-> "true"]),
       Obj([type |-> "go", alt |-> "true"]),
       Obj([type |-> "go", ok |-> "true", alt |-> "true"]),
       Str("next"), Str("back"), Str("constructor") },
     { Str("go"), Str("back"), Str("next") },
     { Obj([type |-> "goToSecond", x |-> "1"]),
       Obj([type |-> "goToFourth", x |-> "2"]),
       Obj([type |-> "goToFinal", x |-> "3"]),
       Obj([type |-> "assign", a |-> "2"]), Str("go") },
     { Str("go"), Str("back") },
     { Str("go"), Obj([type |-> "go", k |-> "go"]),
       Obj([type |-> "poke", k |-> "go"]),
       Obj([type |-> "poke", k |-> "stay"]), Str("reset") },
     { Str("start"), Str("go"), Str("back") },
     { Str("g"), Str("r"), Str("as"), Str("ac"), Str("en"), Str("fx"), Str("ok"),
       Str("in"), Str("note") },
     { Str("go"), Str("constructor") },
     { Str("go") },
     { Str("go") },
     { Str("go"), Str("hop") },
     { Str("go"), Str("note") },
     { Str("leave") },
     { Str("start") },
     { Str("again"), Str("leave"), Str("tick") },
     { Str("go") } >>

EventInputs == UNION Range(EventsFor)

(* What a promise is fulfilled with, and what it is rejected with          *)
PromiseValues == [fulfilled |-> {"42"}, rejected |-> {"boom"}]

Listeners == {"sub1", "sub2"}

MaxHandles == 4

MaxCbs == 2

(***************************************************************************)
(* State                                                                   *)
(***************************************************************************)
VARIABLES
  created,          \* createService has returned a service
  description,      \* index of the description it was created from
  machine, state, prev, pendingEffects, runningEffects,   \* the service object
  cbs, running,     \* closure variables of createService
  heap,             \* effect handles, by creation order
  unsubs,           \* functions subscribe returned, one per listener: [fn, called]
  log,              \* what the last call did
  last,             \* the last call and the session before it
  tcall             \* a direct call of transition and its result

vars ==
  << created, description, machine, state, prev, pendingEffects, runningEffects, cbs,
     running, heap, unsubs, log, last, tcall >>

(* A handle can still be observed if the service references it, if its     *)
(* promise is pending, if it holds an undisposed cleanup, or if its effect *)
(* may still call send.                                                    *)
reachable(S, h) ==
  \/ h \in Range(S.pendingEffects) \cup Range(S.runningEffects)
  \/ S.heap[h].promise = "pending"
  \/ S.heap[h].hasDispose /\ ~S.heap[h].disposed
  \/ /\ S.heap[h].started > 0
     /\ ~isPromiseEffect(S.heap[h].run)
     /\ S.heap[h].run.late # <<>>

(* Unreachable handles are reclaimed; the others keep their creation order *)
collect(S) ==
  LET keep == {h \in DOMAIN S.heap : reachable(S, h)}
      rank(h) == Cardinality({k \in keep : k <= h})
      nth(j) == CHOOSE h \in keep : rank(h) = j
  IN [S EXCEPT !.heap = <<>> \o [j \in 1..Cardinality(keep) |-> S.heap[nth(j)]],
               !.pendingEffects =
                 <<>> \o [j \in DOMAIN S.pendingEffects |-> rank(S.pendingEffects[j])],
               !.runningEffects =
                 <<>> \o [j \in DOMAIN S.runningEffects |-> rank(S.runningEffects[j])]]

(* The session as the next call finds it *)
Session ==
  collect([machine |-> machine, state |-> state, prev |-> prev,
           pendingEffects |-> pendingEffects, runningEffects |-> runningEffects,
           cbs |-> cbs, running |-> running, heap |-> heap, log |-> <<>>,
           threw |-> FALSE])

Install(S) ==
  /\ machine' = S.machine
  /\ state' = S.state
  /\ prev' = S.prev
  /\ pendingEffects' = S.pendingEffects
  /\ runningEffects' = S.runningEffects
  /\ cbs' = S.cbs
  /\ running' = S.running
  /\ heap' = S.heap
  /\ log' = S.log

(* What a call found: the session before it                                *)
Called(op, arg, Pre, S) ==
  last' = [op |-> op, arg |-> arg, threw |-> S.threw,
           pre |-> [state |-> Pre.state, prev |-> Pre.prev,
                    pendingEffects |-> Pre.pendingEffects,
                    runningEffects |-> Pre.runningEffects,
                    cbs |-> Pre.cbs, running |-> Pre.running,
                    live |-> {h \in DOMAIN Pre.heap :
                               Pre.heap[h].hasDispose /\ ~Pre.heap[h].disposed},
                    disposed |-> {h \in DOMAIN Pre.heap : Pre.heap[h].disposed}]]

(* A call that found the session Pre returns and leaves the session S      *)
Return(op, arg, Pre, S) ==
  /\ Len(S.heap) <= MaxHandles
  /\ Install(S)
  /\ Called(op, arg, Pre, S)

NoCall == [op |-> "none"]

Init ==
  /\ created = FALSE
  /\ description = 0
  /\ machine = NoService.machine
  /\ state = NoService.state
  /\ prev = NoService.prev
  /\ pendingEffects = <<>>
  /\ runningEffects = <<>>
  /\ cbs = <<>>
  /\ running = FALSE
  /\ heap = <<>>
  /\ unsubs = {}
  /\ log = <<>>
  /\ last = NoCall
  /\ tcall = NoCall

CreateReturn(d, context, S) ==
  /\ created' = ~S.threw
  /\ description' = IF S.threw THEN 0 ELSE d
  /\ Return("create", [d |-> d, context |-> context], Session, S)

Create(d, context) ==
  /\ ~created
  /\ CreateReturn(d, context, createService(Descriptions[d], context))
  /\ UNCHANGED << unsubs, tcall >>

Send(event) ==
  /\ created
  /\ event \in EventsFor[description]
  /\ Return("send", event, Session, send(Session, event, 0))
  /\ UNCHANGED << created, description, unsubs, tcall >>

(* The listeners are interchangeable: sub1 is the one subscribed first.    *)
Subscribe(fn) ==
  /\ created
  /\ Len(cbs) < MaxCbs
  /\ fn = "sub1" \/ \E u \in unsubs : u.fn = "sub1"
  /\ Return("subscribe", fn, Session, subscribe(Session, fn))
  /\ unsubs' = IF [fn |-> fn, called |-> TRUE] \in unsubs THEN unsubs
               ELSE unsubs \cup {[fn |-> fn, called |-> FALSE]}
  /\ UNCHANGED << created, description, tcall >>

(* A function that subscribe(u.fn) returned is called; u.called tells      *)
(* whether it has been called before.  The functions returned for one      *)
(* listener all do the same, so one of them is kept: one that has been     *)
(* called, if any.                                                         *)
Unsubscribe(u) ==
  /\ created
  /\ u \in unsubs
  /\ Return("unsubscribe", u, Session, unsubscribe(Session, u.fn))
  /\ unsubs' = (unsubs \ {u}) \cup {[fn |-> u.fn, called |-> TRUE]}
  /\ UNCHANGED << created, description, tcall >>

Stop ==
  /\ created
  /\ Return("stop", <<>>, Session, stop(Session))
  /\ UNCHANGED << created, description, unsubs, tcall >>

(* The promise of a started invoke settles (a microtask: no call is active) *)
PromiseSettle(h, outcome, v) ==
  /\ created
  /\ h \in DOMAIN Session.heap
  /\ Session.heap[h].promise = "pending"
  /\ Return("settle", [h |-> h, outcome |-> outcome, v |-> v],
            Session, promiseSettled(Session, h, outcome, v))
  /\ UNCHANGED << created, description, unsubs, tcall >>

(* A started effect calls the send it was given, some time after run       *)
LateSend(h, i) ==
  /\ created
  /\ h \in DOMAIN Session.heap
  /\ Session.heap[h].started > 0
  /\ ~isPromiseEffect(Session.heap[h].run)
  /\ i \in DOMAIN Session.heap[h].run.late
  /\ Return("late", [h |-> h, event |-> Session.heap[h].run.late[i]], Session,
            safeSend(Session, h, Session.heap[h].run.late[i], 0))
  /\ UNCHANGED << created, description, unsubs, tcall >>

Next ==
  \/ \E d \in DOMAIN Descriptions, context \in InitialContexts : Create(d, context)
  \/ \E event \in EventInputs : Send(event)
  \/ \E fn \in Listeners : Subscribe(fn)
  \/ \E u \in [fn : Listeners, called : BOOLEAN] : Unsubscribe(u)
  \/ Stop
  \/ \E h \in 1..MaxHandles, outcome \in DOMAIN PromiseValues :
       \E v \in PromiseValues[outcome] : PromiseSettle(h, outcome, v)
  \/ \E h \in 1..MaxHandles, i \in 1..2 : LateSend(h, i)

Spec == Init /\ [][Next]_vars

(***************************************************************************)
(* Direct calls of the pure function transition on drawn inputs            *)
(***************************************************************************)
Machines ==
  [d \in {c \in DOMAIN Descriptions : ~createMachine(Descriptions[c]).threw} |->
     createMachine(Descriptions[d]).value]

TContexts == { <<>>, [x |-> "1"], [k |-> "go"], [k |-> "stay", a |-> "1"] }

TNames(d) == Range(Machines[d].states.keys) \cup {Null, "nowhere"}

TStates(d) ==
  [name : TNames(d), context : TContexts]
    \cup [name : TNames(d), context : TContexts, final : {TRUE}]

TEvents ==
  EventInputs \cup { Obj([type |-> Null]),
                     Obj([type |-> "done", data |-> "42"]),
                     Obj([type |-> "error", error |-> "boom"]) }

(* Direct calls are drawn for the machines all of whose hooks return and   *)
(* all of whose targets are states; the others are driven through a        *)
(* service.                                                                *)
TDescriptions ==
  {d \in DOMAIN Machines : Descriptions[d] \notin {ThrowMachine, ProtoTargetMachine, RawMachine}}

TInputs ==
  UNION { [op : {"input"}, d : {d}, machine : {Machines[d]}, state : TStates(d),
           event : TEvents] :
          d \in TDescriptions }

InitT ==
  /\ created = FALSE
  /\ description = 0
  /\ machine = NoService.machine
  /\ state = NoService.state
  /\ prev = NoService.prev
  /\ pendingEffects = <<>>
  /\ runningEffects = <<>>
  /\ cbs = <<>>
  /\ running = FALSE
  /\ heap = <<>>
  /\ unsubs = {}
  /\ log = <<>>
  /\ last = NoCall
  /\ tcall \in TInputs

(* Variant: next = curr, so that what applyTransition writes reaches the   *)
(* state object passed in.                                                 *)
passedAfter_noCopy(m, curr, r) == [machine |-> m, state |-> r.next]

(* The objects passed to transition, after the call that returned r:       *)
(* applyTransition writes name, context and final on next = { ...curr },   *)
(* and only reads machine.                                                 *)
passedAfter(m, curr, r) == [machine |-> m, state |-> curr]

(* transition(machine, state, event), and the same call once more on the   *)
(* same objects                                                            *)
TransitionCall ==
  /\ tcall.op = "input"
  /\ LET r == transition(tcall.machine, tcall.state, tcall.event)
         after == passedAfter(tcall.machine, tcall.state, r)
     IN tcall' = [op |-> "transition", d |-> tcall.d, machine |-> tcall.machine,
                  state |-> tcall.state, event |-> tcall.event, result |-> r,
                  after |-> after,
                  again |-> transition(after.machine, after.state, tcall.event)]
  /\ UNCHANGED << created, description, machine, state, prev, pendingEffects,
                  runningEffects, cbs, running, heap, unsubs, log, last >>

NextT == TransitionCall

SpecT == InitT /\ [][NextT]_vars

(***************************************************************************)
(* Properties of transition, on the recorded direct call                   *)
(***************************************************************************)
TM == tcall.machine
TS == tcall.state
TE == toEventObject(tcall.event)
TR == tcall.result

(* A call with an event as a caller can send it: its type is not the null  *)
(* of the initial transition event createService builds.                   *)
TCalled == tcall.op = "transition" /\ TE.type # Null

(* The transitions the node of state S declares for event type ty, in      *)
(* declaration order; none when S.name names no node.                      *)
CandidatesOf(M, S, ty) ==
  IF ObjHasOwn(M.states, S.name)
    THEN IF ObjHasOwn(M.states.at[S.name].transitions, ty)
           THEN M.states.at[S.name].transitions.at[ty] ELSE <<>>
    ELSE <<>>

ImmediatesOf(M, name) ==
  IF ObjHasOwn(M.states, name) THEN M.states.at[name].immediates ELSE <<>>

Passes(context, ev, t) ==
  \A i \in DOMAIN t.guards :
    LET r == callGuard(t.guards[i], context, ev) IN ~r.threw /\ r.value

Passing(context, ev, candidates) ==
  {i \in DOMAIN candidates : Passes(context, ev, candidates[i])}

Min(set) == CHOOSE j \in set : \A k \in set : j <= k

(* The context a reducer call of the log left behind it                    *)
Out(entry, ev) ==
  LET r == callReducer(entry.hook, entry.context, ev)
  IN IF r.isAction THEN entry.context ELSE r.value

Tag(phase, node, hooks) ==
  [k \in DOMAIN hooks |-> [phase |-> phase, node |-> node, hook |-> hooks[k]]]

TagOf(entry) == [phase |-> entry.phase, node |-> entry.node, hook |-> entry.hook]

ExitReducers(M, name) == reducersOf(M.states.at[name].exit, 1)
EnterReducers(M, name) == reducersOf(M.states.at[name].enter, 1)

(* Each reducer call of a log received what the call before it produced.   *)
Threaded(rlog, context, ev, final) ==
  /\ rlog # <<>> => rlog[1].context = context
  /\ \A k \in 1..(Len(rlog) - 1) : rlog[k + 1].context = Out(rlog[k], ev)
  /\ final = IF rlog = <<>> THEN context ELSE Out(rlog[Len(rlog)], ev)

(* C1: when the node of S has no transition for E.type whose guards all    *)
(* pass on S.context (also when S.name names no node), transition returns  *)
(* S itself with effects null, and it runs no reducer.                     *)
C1_UnmatchedIsNoOp ==
  (TCalled /\ Passing(TS.context, TE, CandidatesOf(TM, TS, TE.type)) = {})
    => /\ ~TR.threw
       /\ TR.next = TS
       /\ TR.effects.isNull
       /\ TR.log = <<>>

(* The same for event types that Object.prototype does not define.         *)
C1_UnmatchedOwnKeysOnly ==
  (TCalled /\ TE.type \notin ObjectPrototypeKeys
     /\ Passing(TS.context, TE, CandidatesOf(TM, TS, TE.type)) = {})
    => /\ ~TR.threw
       /\ TR.next = TS
       /\ TR.effects.isNull
       /\ TR.log = <<>>

C1_Unmatched_reached ==
  /\ TCalled
  /\ TM = Machines[1] /\ TS.name = "a" /\ TE.type = "go"
  /\ Passing(TS.context, TE, CandidatesOf(TM, TS, "go")) = {}
  /\ TR.next = TS /\ TR.effects.isNull

(* C2: of several transitions for the same event type the first one in     *)
(* declaration order whose guards all pass is selected; its reducers run,  *)
(* in order, and no reducer of another candidate runs.                     *)
C2_FirstPassingCandidate ==
  TCalled =>
    LET c == CandidatesOf(TM, TS, TE.type)
        pass == Passing(TS.context, TE, c)
    IN pass # {} =>
         LET sel == c[Min(pass)]
             ran == SelectSeq(TR.log, LAMBDA e : e.phase = "transition")
         IN /\ ~TR.threw
            /\ Len(ran) >= Len(sel.reducers)
            /\ \A k \in DOMAIN sel.reducers :
                 /\ ran[k].hook = sel.reducers[k]
                 /\ ran[k].node = IF isInternal(sel) THEN TS.name ELSE sel.target
            /\ \A j \in DOMAIN c : \A m \in DOMAIN c[j].reducers :
                 c[j].reducers[m] \notin Range(sel.reducers)
                   => \A k \in DOMAIN TR.log : TR.log[k].hook # c[j].reducers[m]

C2_SecondCandidate_reached ==
  /\ TCalled
  /\ LET c == CandidatesOf(TM, TS, TE.type)
         pass == Passing(TS.context, TE, c)
     IN /\ Len(c) = 2 /\ pass = {2}
        /\ c[1].reducers # <<>>
        /\ TR.next.name = c[2].target
        /\ Get(TR.next.context, "via") = "second"

(* C3: an external transition from A to B runs A's exit reducers, then the *)
(* transition's reducers, then B's enter reducers, each on the context the *)
(* one before it produced; with exit assign {x: 1} on a and an enter       *)
(* reducer on b that reads x, firing a -> b gives x = 1 and name = "b-1".  *)
C3_ExitTransitionEnterOrder ==
  TCalled =>
    LET c == CandidatesOf(TM, TS, TE.type)
        pass == Passing(TS.context, TE, c)
    IN (pass # {} /\ ~isInternal(c[Min(pass)])) =>
         LET sel == c[Min(pass)]
             expect == Tag("exit", TS.name, ExitReducers(TM, TS.name))
                       \o Tag("transition", sel.target, sel.reducers)
                       \o Tag("enter", sel.target, EnterReducers(TM, sel.target))
         IN /\ ~TR.threw
            /\ Len(TR.log) >= Len(expect)
            /\ \A k \in DOMAIN expect : TagOf(TR.log[k]) = expect[k]
            /\ Threaded(TR.log, TS.context, TE, TR.next.context)
            /\ (TM = Machines[2] /\ TS.name = "a" /\ TE.type = "go")
                 => /\ TR.next.name = "b"
                    /\ Get(TR.next.context, "x") = "1"
                    /\ Get(TR.next.context, "name") = "b-1"

C3_OrderExample_reached ==
  /\ TCalled
  /\ TM = Machines[2] /\ TS.name = "a" /\ TS.context = <<>> /\ TE.type = "go"
  /\ Len(TR.log) = 3
  /\ TR.log[1].phase = "exit" /\ TR.log[3].phase = "enter"
  /\ TR.next.context = [x |-> "1", t |-> "t-1", name |-> "b-1"]

(* C6: an internal transition runs its own reducers and no exit or enter   *)
(* reducer of its state, then the state's immediates are tried in order on *)
(* the updated context: if none passes the name is unchanged, if one       *)
(* passes the state is left through it in the same step, with the state's  *)
(* exit reducers and the target's enter reducers.                          *)
C6_InternalThenImmediates ==
  TCalled =>
    LET c == CandidatesOf(TM, TS, TE.type)
        pass == Passing(TS.context, TE, c)
    IN (pass # {} /\ isInternal(c[Min(pass)])) =>
         LET sel == c[Min(pass)]
             n == Len(sel.reducers)
             own == Tag("transition", TS.name, sel.reducers)
             updated == IF n = 0 THEN TS.context ELSE Out(TR.log[n], TE)
             imms == ImmediatesOf(TM, TS.name)
             ipass == Passing(updated, TE, imms)
         IN /\ ~TR.threw
            /\ Len(TR.log) >= n
            /\ \A k \in 1..n : TagOf(TR.log[k]) = own[k]
            /\ Threaded(TR.log, TS.context, TE, TR.next.context)
            /\ ipass = {} => /\ Len(TR.log) = n
                             /\ TR.next.name = TS.name
                             /\ TR.next.context = updated
            /\ ipass # {} =>
                 LET imm == imms[Min(ipass)]
                     leave == Tag("exit", TS.name, ExitReducers(TM, TS.name))
                              \o Tag("transition", imm.target, imm.reducers)
                              \o Tag("enter", imm.target, EnterReducers(TM, imm.target))
                 IN /\ Len(TR.log) >= n + Len(leave)
                    /\ \A k \in DOMAIN leave : TagOf(TR.log[n + k]) = leave[k]
                    /\ ~TR.effects.isNull

C6_InternalLeaves_reached ==
  /\ TCalled
  /\ TM = Machines[5] /\ TS.name = "A" /\ TS.context = <<>>
  /\ TE = [type |-> "poke", k |-> "go"]
  /\ TR.next.name = "C"
  /\ Get(TR.next.context, "exitedA") = "yes"
  /\ TR.log[1].phase = "transition" /\ TR.log[2].phase = "exit"

(***************************************************************************)
(* Properties of the service, on the last call and its log                 *)
(***************************************************************************)
LE == toEventObject(last.arg)

(* send was called on a running service                                    *)
Sent == last.op = "send" /\ last.pre.running

Ops(op) == {k \in DOMAIN log : log[k].op = op}

(* The entry of the outermost send that records what transition returned   *)
Returned == log[Min({k \in Ops("transitioned") : log[k].lvl = 0})]

RunName(run) == IF isPromiseEffect(run) THEN "invoke" ELSE run.name

RunNames(list) == [j \in DOMAIN list |-> RunName(list[j].run)]

Suffix(seq, n) == SubSeq(seq, Len(seq) - n + 1, Len(seq))

(* One event that takes ChainMachine from idle or A through B to C         *)
ChainSent ==
  /\ Sent /\ description = 5
  /\ \/ last.pre.state.name = "idle" /\ LE.type = "go" /\ Get(LE, "k") = "go"
     \/ last.pre.state.name = "A" /\ LE.type = "poke" /\ Get(LE, "k") = "go"

(* C4: one event that triggers the chain A -> B -> C through passing       *)
(* immediates returns state C; the exit reducers of A and B and the enter  *)
(* reducers of B and C have run in chain order; the returned effects are   *)
(* those of C's enter alone; no effect of B is ever created or started.    *)
C4_ChainSettlesInLast ==
  /\ ChainSent =>
       LET hooks == SelectSeq(log, LAMBDA e : e.op = "reduce" /\ e.phase # "transition")
           order == [k \in DOMAIN hooks |-> << hooks[k].phase, hooks[k].node >>]
       IN /\ ~last.threw
          /\ state.name = "C"
          /\ Len(order) >= 4
          /\ Suffix(order, 4) = << <<"exit", "A">>, <<"enter", "B">>,
                                   <<"exit", "B">>, <<"enter", "C">> >>
          /\ ~Returned.effects.isNull
          /\ RunNames(Returned.effects.list) = << "effC" >>
          /\ \A k \in Ops("start") : heap[log[k].h].origin = "C"
  /\ description = 5 =>
       \A h \in DOMAIN heap :
         /\ heap[h].origin # "B"
         /\ ~isPromiseEffect(heap[h].run)
         /\ heap[h].run.name # "effB"

C4_ChainToC_reached ==
  /\ ChainSent
  /\ last.pre.state.name = "A"
  /\ state.name = "C"
  /\ Get(state.context, "enteredB") = "yes"
  /\ \E k \in Ops("start") : heap[log[k].h].run.name = "effC"
  /\ \E k \in Ops("dispose") : heap[log[k].h].run.name = "effA"

(* The transition send selects in the state it finds is internal           *)
InternalSent ==
  /\ Sent
  /\ LET c == CandidatesOf(machine, last.pre.state, LE.type)
         pass == Passing(last.pre.state.context, LE, c)
     IN pass # {} /\ isInternal(c[Min(pass)])

(* No immediate of the state passes on the context the internal            *)
(* transition's reducers produce.                                          *)
NoImmediateAfter ==
  LET c == CandidatesOf(machine, last.pre.state, LE.type)
      sel == c[Min(Passing(last.pre.state.context, LE, c))]
      updated == applyReducers(last.pre.state.context, LE, sel.reducers,
                               [phase |-> "transition", node |-> last.pre.state.name],
                               <<>>).context
  IN Passing(updated, LE, ImmediatesOf(machine, last.pre.state.name)) = {}

EffectsUntouched ==
  /\ ~last.threw
  /\ Returned.effects.isNull
  /\ Ops("dispose") = {} /\ Ops("start") = {}
  /\ pendingEffects = last.pre.pendingEffects
  /\ runningEffects = last.pre.runningEffects

(* C5, as stated: whenever the selected transition is internal, transition *)
(* returns effects = null and the send neither disposes nor restarts any   *)
(* running effect and leaves pendingEffects unchanged.                     *)
C5_InternalKeepsEffects == InternalSent => EffectsUntouched

(* C5, amended: the same when the selected transition is internal and none *)
(* of the state's immediates passes after it.                              *)
C5_InternalWithoutImmediateKeepsEffects ==
  (InternalSent /\ NoImmediateAfter) => EffectsUntouched

C5_InternalStays_reached ==
  /\ InternalSent /\ NoImmediateAfter
  /\ runningEffects # <<>>
  /\ state.name = last.pre.state.name
  /\ state.context # last.pre.state.context

C5_InternalLeaves_reached ==
  /\ InternalSent /\ ~NoImmediateAfter
  /\ ~Returned.effects.isNull
  /\ Ops("dispose") # {} /\ Ops("start") # {}

(* C7: after createService and after every send, runningEffects holds      *)
(* exactly the handles of the current state's last external settle that    *)
(* returned a cleanup: no handle of a state that was exited, and no        *)
(* started handle with a cleanup is left outside it undisposed.            *)
C7_RunningEffectsOfCurrentState ==
  (created /\ last.op \in {"create", "send", "late", "settle"}) =>
    /\ \A h \in Range(runningEffects) :
         /\ heap[h].origin = state.name
         /\ h \in Range(pendingEffects)
         /\ heap[h].hasDispose /\ ~heap[h].disposed
    /\ \A h \in DOMAIN heap :
         (heap[h].started > 0 /\ heap[h].hasDispose /\ ~heap[h].disposed)
           => h \in Range(runningEffects)

(* The service was created from a description with an effect that sends an *)
(* event causing an external transition while it is being started, or with *)
(* an effect that throws when started.                                     *)
StartsReentrant ==
  description # 0
  /\ Descriptions[description] \in {ReentrantMachine, ReentrantInvokeMachine}

StartThrows == description # 0 /\ Descriptions[description] = ThrowMachine

(* The same for services whose effects neither send such an event nor      *)
(* throw while they start                                                  *)
C7_WithoutReentrantSend ==
  ~(StartsReentrant \/ StartThrows) => C7_RunningEffectsOfCurrentState

(* The sends of the log: <<begin, end>> index pairs                        *)
SendSpans ==
  {<<i, j>> \in (DOMAIN log) \X (DOMAIN log) :
     /\ i < j
     /\ log[i].op = "sendBegin"
     /\ log[j].op \in {"sendEnd", "sendThrow"} /\ log[j].lvl = log[i].lvl
     /\ \A k \in (i + 1)..(j - 1) :
          log[k].op \in {"sendEnd", "sendThrow"} => log[k].lvl # log[i].lvl}

(* Handles whose run had returned a cleanup, not yet invoked, when the     *)
(* log reached index i.                                                    *)
RunningAt(i) ==
  (last.pre.live \cup {log[k].h : k \in {k \in Ops("retained") : k < i}})
    \ {log[k].h : k \in {k \in Ops("dispose") : k < i}}

(* C8: when a send causes an external transition, before it returns every  *)
(* previously running effect's cleanup has been invoked and every effect   *)
(* of the new state has been started, cleanups before starts, subscribers  *)
(* notified after both.                                                    *)
C8_DisposeThenStartThenNotify ==
  \A span \in SendSpans :
    LET i == span[1]
        j == span[2]
        lvl == log[i].lvl
        at(op) == {k \in i..j : log[k].op = op /\ log[k].lvl = lvl}
    IN (\E k \in at("transitioned") : ~log[k].effects.isNull) =>
         /\ log[j].op = "sendEnd"
         /\ \A h \in RunningAt(i) :
              \E k \in i..j : log[k].op = "dispose" /\ log[k].h = h
         /\ \A p \in at("pending") : \A h \in Range(log[p].hs) :
              \E k \in i..j : log[k].op = "start" /\ log[k].h = h
         /\ \A d \in at("dispose"), r \in at("start") : d < r
         /\ \A n \in at("notify") : \A k \in at("dispose") \cup at("start") : k < n

C8_WithoutReentrantSend ==
  ~(StartsReentrant \/ StartThrows) => C8_DisposeThenStartThenNotify

C8_ExternalSend_reached ==
  /\ Sent /\ description = 5
  /\ \E d \in Ops("dispose"), r \in Ops("start"), n \in Ops("notify") : d < r /\ r < n

(* C9: a send through an effect's own send function from inside its        *)
(* cleanup, or any time after the cleanup started, changes neither state,  *)
(* prev, pendingEffects nor runningEffects, notifies nobody and does not   *)
(* throw: the handle is marked disposed before the user cleanup runs.      *)
C9_SendAfterCleanupSwallowed ==
  /\ (last.op = "late" /\ last.arg.h \in last.pre.disposed) =>
       /\ ~last.threw
       /\ state = last.pre.state /\ prev = last.pre.prev
       /\ pendingEffects = last.pre.pendingEffects
       /\ runningEffects = last.pre.runningEffects
       /\ Ops("notify") = {} /\ Ops("sendBegin") = {}
  /\ \A k \in Ops("dispose") :
       (/\ ~isPromiseEffect(heap[log[k].h].run)
        /\ \A e \in Range(heap[log[k].h].run.cleanupSends) : "service" \notin DOMAIN e) =>
         LET n == Len(heap[log[k].h].run.cleanupSends)
         IN /\ k + n <= Len(log)
            /\ \A m \in 1..n : /\ log[k + m].op = "warn"
                               /\ log[k + m].h = log[k].h
                               /\ log[k + m].what = "send after cleanup"

C9_SendInCleanup_reached ==
  /\ Sent /\ description = 3
  /\ \E k \in Ops("dispose") :
       /\ heap[log[k].h].run.cleanupSends # <<>>
       /\ log[k + 1].op = "warn"
  /\ state.name = "final"

C9_LateSend_reached ==
  /\ last.op = "late" /\ last.arg.h \in last.pre.disposed
  /\ log # <<>> /\ log[1].op = "warn"

(* C10: when the promise of an invoke settles while its effect is not      *)
(* disposed, send is called with {type: "done", data} if it fulfilled and  *)
(* with {type: "error", error} if it rejected; with transition("done",     *)
(* "next", {assign: true}) the machine settles in next with context.data   *)
(* equal to the fulfilled value.                                           *)
C10_InvokeRoundTrip ==
  (last.op = "settle" /\ last.arg.h \notin last.pre.disposed) =>
    /\ log # <<>>
    /\ log[1].op \in {"sendBegin", "sendIgnored"}
    /\ log[1].lvl = 0
    /\ log[1].event =
         IF last.arg.outcome = "fulfilled"
           THEN Obj([type |-> "done", data |-> last.arg.v])
           ELSE Obj([type |-> "error", error |-> last.arg.v])
    /\ (description = 4 /\ last.arg.outcome = "fulfilled") =>
         /\ state.name = "next"
         /\ Get(state.context, "data") = last.arg.v
    /\ (description = 4 /\ last.arg.outcome = "rejected") =>
         /\ state.name = "a"
         /\ Get(state.context, "error") = last.arg.v

C10_Fulfilled_reached ==
  /\ last.op = "settle" /\ last.arg.outcome = "fulfilled" /\ last.arg.v = "42"
  /\ last.pre.state.name = "b"
  /\ state.name = "next"
  /\ Get(state.context, "data") = "42"

(***************************************************************************)
(* Properties of the service, continued                                    *)
(***************************************************************************)
(* The promise of handle last.arg.h settled after the state that started   *)
(* it had been left by an external transition, or after stop(): the handle *)
(* was no longer among the pending effects.                                *)
SettledAbandoned ==
  /\ last.op = "settle"
  /\ last.arg.h \notin Range(last.pre.pendingEffects)

(* C11: when the promise of an invoke settles after the state that started *)
(* it was exited by an external transition, or after stop(), no done or    *)
(* error event is sent and the state of the session does not change.       *)
C11_AbandonedInvokeDropped ==
  SettledAbandoned =>
    /\ log = <<>>
    /\ state = last.pre.state
    /\ prev = last.pre.prev

(* The same for services whose effects send no event causing an external   *)
(* transition while they start                                             *)
C11_WithoutReentrantSend ==
  ~StartsReentrant => C11_AbandonedInvokeDropped

C11_Abandoned_reached ==
  /\ SettledAbandoned
  /\ Descriptions[description] = InvokeLeaveMachine
  /\ last.pre.running
  /\ last.pre.state.name = "x"
  /\ state.name = "x"

C11_Stopped_reached ==
  /\ SettledAbandoned
  /\ ~last.pre.running
  /\ last.pre.state.name = "w"
  /\ state.name = "w"

(* The node of the current state                                           *)
CurrentNode == machine.states.at[state.name]

NoWayOut(node) == Len(node.transitions.keys) = 0 /\ Len(node.immediates) = 0

(* C12: whenever the session is in a state with a non-null name, the state *)
(* carries final = true if and only if its node has no transition (event   *)
(* or internal) and no immediate.                                          *)
C12_FinalIffNoWayOut ==
  (created /\ state.name # Null) =>
    /\ ObjHasOwn(machine.states, state.name)
    /\ ("final" \in DOMAIN state) <=> NoWayOut(CurrentNode)
    /\ ("final" \in DOMAIN state) => state.final = TRUE

C12_Final_reached ==
  /\ created /\ last.op = "send" /\ ~last.threw
  /\ "final" \notin DOMAIN last.pre.state
  /\ "final" \in DOMAIN state
  /\ NoWayOut(CurrentNode)

C12_OnlyImmediate_reached ==
  /\ created /\ last.op = "send" /\ state.name # Null
  /\ Len(CurrentNode.transitions.keys) = 0
  /\ Len(CurrentNode.immediates) > 0
  /\ "final" \notin DOMAIN state

C12_OnlyInternal_reached ==
  /\ created /\ last.op = "send" /\ state.name # Null
  /\ Len(CurrentNode.immediates) = 0
  /\ \A k \in Range(CurrentNode.transitions.keys) :
       \A j \in DOMAIN CurrentNode.transitions.at[k] :
         isInternal(CurrentNode.transitions.at[k][j])
  /\ Len(CurrentNode.transitions.keys) > 0
  /\ "final" \notin DOMAIN state

(* The last call was a send to the running service during which transition *)
(* threw: the call tree ends before any state was assigned.                *)
ThrewInTransition ==
  /\ last.op \in {"send", "late"} /\ last.pre.running
  /\ log # <<>>
  /\ log[1].op = "sendBegin"
  /\ log[Len(log)].op = "sendThrow"
  /\ Ops("transitioned") = {}

(* The user function that threw: a guard of a candidate for the event, or  *)
(* the hook of the last reducer call                                       *)
GuardThrew ==
  /\ ThrewInTransition
  /\ Ops("reduce") = {}
  /\ \E c \in Range(CandidatesOf(machine, last.pre.state, LE.type)) :
       checkGuards(last.pre.state.context, LE, c).threw

ReducerThrew(kind) ==
  /\ ThrewInTransition
  /\ Ops("reduce") # {}
  /\ LET hook == log[Len(log) - 1].hook
     IN IF kind = "reduce" THEN hook = [fn |-> "throw"]
        ELSE hook = [lowered |-> kind, arg |-> [fn |-> "throw"]]

(* C13: when a guard, reducer, assign function or action throws while send *)
(* computes the transition, send throws, and state, pendingEffects and     *)
(* runningEffects are what they were before the send; no effect is         *)
(* disposed or started and no subscriber is called.                        *)
C13_ThrowInTransitionLeavesSession ==
  ThrewInTransition =>
    /\ last.threw
    /\ state = last.pre.state
    /\ pendingEffects = last.pre.pendingEffects
    /\ runningEffects = last.pre.runningEffects
    /\ {h \in DOMAIN heap : heap[h].disposed} = last.pre.disposed
    /\ Ops("dispose") = {} /\ Ops("start") = {} /\ Ops("pending") = {}
    /\ Ops("notify") = {}

C13_ReducerThrew_reached ==
  /\ ReducerThrew("reduce")
  /\ cbs # <<>> /\ runningEffects # <<>>

C13_GuardThrew_reached == GuardThrew /\ cbs # <<>> /\ runningEffects # <<>>

C13_AssignThrew_reached == ReducerThrew("assign") /\ cbs # <<>>

C13_ActionThrew_reached == ReducerThrew("action") /\ cbs # <<>>

(* The last call was a send that caused an external transition, and an     *)
(* effect of the state entered threw when it was started.                  *)
EffectThrew ==
  /\ last.op \in {"send", "late"} /\ last.pre.running
  /\ Len(log) > 2
  /\ log[1].op = "sendBegin"
  /\ \E k \in Ops("transitioned") : log[k].lvl = 0 /\ ~log[k].effects.isNull
  /\ log[Len(log) - 1].op = "start"
  /\ log[Len(log)].op = "sendThrow"

(* C14: when an effect throws while a send that caused an external         *)
(* transition starts it, send throws and the state of the session is what  *)
(* it was before that send.                                                *)
C14_ThrowingEffectLeavesState ==
  EffectThrew => (last.threw /\ state = last.pre.state)

(* What the session is left with instead                                   *)
C14_ThrowingEffectPropagates ==
  EffectThrew =>
    /\ last.threw
    /\ state = Returned.next
    /\ prev = <<last.pre.state>>
    /\ pendingEffects # last.pre.pendingEffects
    /\ runningEffects = <<>>
    /\ \A h \in last.pre.live : h \in Range(last.pre.runningEffects) => heap[h].disposed
    /\ Ops("notify") = {}

C14_EffectThrew_reached ==
  /\ EffectThrew
  /\ state.name = "c" /\ last.pre.state.name = "a"
  /\ \E h \in DOMAIN heap :
       /\ heap[h].run.name = "first"
       /\ heap[h].hasDispose /\ ~heap[h].disposed
       /\ h \notin Range(runningEffects)

(* stop() has returned                                                     *)
Stopped == created /\ ~running

(* C15: once stop() has returned, runningEffects and pendingEffects are    *)
(* empty, every effect that had returned a cleanup has had it invoked, and *)
(* every later send leaves state and prev unchanged, calls no subscriber   *)
(* and starts no effect.                                                   *)
C15_StopDisposesAllAndInert ==
  Stopped =>
    /\ runningEffects = <<>> /\ pendingEffects = <<>>
    /\ \A h \in DOMAIN heap : heap[h].hasDispose => heap[h].cleaned > 0
    /\ (last.op \in {"send", "late", "settle"} /\ ~last.pre.running) =>
         /\ state = last.pre.state /\ prev = last.pre.prev
         /\ Ops("notify") = {} /\ Ops("start") = {} /\ Ops("sendBegin") = {}

(* The same for services whose effects neither send an event causing an    *)
(* external transition nor throw while they start                          *)
C15_WithoutReentrantSend ==
  ~(StartsReentrant \/ StartThrows) => C15_StopDisposesAllAndInert

C15_StopDisposed_reached ==
  /\ Stopped /\ last.op = "stop"
  /\ last.pre.running
  /\ last.pre.runningEffects # <<>> /\ last.pre.cbs # <<>>
  /\ Ops("dispose") # {}

C15_SendAfterStop_reached ==
  /\ Stopped /\ last.op = "send" /\ ~last.pre.running
  /\ last.pre.cbs # <<>>
  /\ CandidatesOf(machine, last.pre.state, LE.type) # <<>>
  /\ Ops("sendIgnored") # {}

C15_LeakedAtStop_reached ==
  /\ Stopped /\ last.op = "stop"
  /\ \E h \in DOMAIN heap : heap[h].hasDispose /\ heap[h].cleaned = 0

(* What a send spanning log[i..j] at level lvl did                         *)
NotifiedIn(i, j, lvl) ==
  SelectSeq(SubSeq(log, i, j), LAMBDA e : e.op = "notify" /\ e.lvl = lvl)

TransitionedIn(i, j, lvl) ==
  {k \in i..j : log[k].op = "transitioned" /\ log[k].lvl = lvl}

(* The send that begins the log was given an event for which the current   *)
(* node has no transition.                                                 *)
MatchedNothing(i) ==
  /\ i = 1 /\ last.op \in {"send", "late", "settle"}
  /\ CandidatesOf(machine, last.pre.state, toEventObject(log[i].event).type) = <<>>

(* Every registered listener was called once, in order, with the state the *)
(* send's transition returned.                                             *)
NotifiedAll(i, j, lvl) ==
  /\ log[j].op = "sendEnd"
  /\ Len(NotifiedIn(i, j, lvl)) = Len(last.pre.cbs)
  /\ \A n \in DOMAIN NotifiedIn(i, j, lvl) :
       /\ NotifiedIn(i, j, lvl)[n].cb = last.pre.cbs[n]
       /\ \A k \in TransitionedIn(i, j, lvl) :
            NotifiedIn(i, j, lvl)[n].state = log[k].next

(* C16: while the session is running, every send call, whether it caused   *)
(* an external transition, an internal transition or matched nothing,      *)
(* calls every subscribed listener exactly once, in subscription order,    *)
(* with the state resulting from that send.                                *)
C16_EverySendNotifiesAll ==
  \A span \in SendSpans :
    (TransitionedIn(span[1], span[2], log[span[1]].lvl) # {} \/ MatchedNothing(span[1]))
      => NotifiedAll(span[1], span[2], log[span[1]].lvl)

(* The same for the sends that return                                      *)
C16_ReturningSendNotifiesAll ==
  \A span \in SendSpans :
    log[span[2]].op = "sendEnd" => NotifiedAll(span[1], span[2], log[span[1]].lvl)

C16_ExternalNotified_reached ==
  /\ Sent /\ ~last.threw
  /\ Len(last.pre.cbs) = 2 /\ last.pre.cbs[1] # last.pre.cbs[2]
  /\ ~Returned.effects.isNull
  /\ Cardinality(Ops("notify")) = 2

C16_InternalNotified_reached ==
  /\ InternalSent /\ NoImmediateAfter
  /\ Len(last.pre.cbs) = 2
  /\ Cardinality(Ops("notify")) = 2

C16_UnmatchedNotified_reached ==
  /\ Sent /\ ~last.threw /\ MatchedNothing(1)
  /\ Len(last.pre.cbs) = 2
  /\ Cardinality(Ops("notify")) = 2

C16_UnmatchedThrew_reached ==
  /\ Sent /\ last.threw /\ log # <<>> /\ MatchedNothing(1)
  /\ Len(last.pre.cbs) = 2
  /\ Ops("notify") = {}

(* The number of registrations of fn in a list of callbacks                *)
Registrations(list, fn) == Cardinality({n \in DOMAIN list : list[n] = fn})

Others(list, fn) == SelectSeq(list, LAMBDA f : f # fn)

(* C17: calling the function subscribe(fn) returned removes that           *)
(* registration of fn, calling it again has no further effect, and the     *)
(* registrations of other listeners are never removed.                     *)
C17_UnsubscribeOwnRegistrationOnce ==
  last.op = "unsubscribe" =>
    /\ Others(cbs, last.arg.fn) = Others(last.pre.cbs, last.arg.fn)
    /\ Registrations(cbs, last.arg.fn) >= Registrations(last.pre.cbs, last.arg.fn) - 1
    /\ last.arg.called => cbs = last.pre.cbs

(* What the function does: it removes every registration of fn             *)
C17_UnsubscribeRemovesListener ==
  last.op = "unsubscribe" =>
    /\ cbs = Others(last.pre.cbs, last.arg.fn)
    /\ Others(cbs, last.arg.fn) = Others(last.pre.cbs, last.arg.fn)

C17_Unsubscribed_reached ==
  /\ last.op = "unsubscribe" /\ ~last.arg.called
  /\ Len(last.pre.cbs) = 2 /\ Len(cbs) = 1
  /\ cbs[1] # last.arg.fn

C17_CalledAgain_reached ==
  /\ last.op = "unsubscribe" /\ last.arg.called
  /\ Registrations(last.pre.cbs, last.arg.fn) = 1
  /\ Registrations(cbs, last.arg.fn) = 0

C17_BothRegistrations_reached ==
  /\ last.op = "unsubscribe" /\ ~last.arg.called
  /\ Registrations(last.pre.cbs, last.arg.fn) = 2
  /\ cbs = <<>>

(* createService has just returned a service for a machine with states     *)
Booted ==
  /\ last.op = "create" /\ ~last.threw
  /\ Len(machine.states.keys) > 0

InitialEvent == [type |-> Null]

FirstState == machine.states.keys[1]

(* The reducer calls of the initial transition, and those of them that are *)
(* the enter reducers of the first state                                   *)
InitialReducers ==
  SubSeq(log, 1, Min({k \in Ops("transitioned") : log[k].lvl = 0}) - 1)

FirstEntered ==
  SubSeq(InitialReducers, 1, Len(EnterReducers(machine, FirstState)))

(* The context the enter reducers of the first state leave                 *)
FirstContext ==
  IF FirstEntered = <<>> THEN last.arg.context
  ELSE Out(FirstEntered[Len(FirstEntered)], InitialEvent)

(* The first state is left at once through one of its immediates           *)
FirstLeft ==
  Passing(FirstContext, InitialEvent, ImmediatesOf(machine, FirstState)) # {}

(* The state the initial transition returned is the first state, or the    *)
(* state in which its chain of immediates settles; the enter reducers of   *)
(* the first state ran first, on the given context.                        *)
InitialSettled ==
  /\ Len(InitialReducers) >= Len(EnterReducers(machine, FirstState))
  /\ [k \in DOMAIN FirstEntered |-> TagOf(FirstEntered[k])]
       = Tag("enter", FirstState, EnterReducers(machine, FirstState))
  /\ Threaded(FirstEntered, last.arg.context, InitialEvent, FirstContext)
  /\ ObjHasOwn(machine.states, Returned.next.name)
  /\ Passing(Returned.next.context, InitialEvent,
             ImmediatesOf(machine, Returned.next.name)) = {}
  /\ ~FirstLeft => Returned.next = (IF NoWayOut(machine.states.at[FirstState])
                                      THEN [final |-> TRUE] ELSE <<>>)
                                   @@ [name |-> FirstState, context |-> FirstContext]

(* The effects of the enter hooks of the state returned were each started  *)
(* once, in order, and nothing else was started by the initial transition. *)
InitialEffectsStarted ==
  LET hs == log[Min(Ops("pending"))].hs
      want == effectsOf(machine.states.at[Returned.next.name].enter, 1, InitialEvent)
      starts == SelectSeq(log, LAMBDA e : e.op = "start" /\ e.lvl = 0)
  IN /\ Len(hs) = Len(want)
     /\ \A j \in DOMAIN hs :
          /\ heap[hs[j]].run = want[j].run
          /\ heap[hs[j]].started = 1
          /\ heap[hs[j]].got = [context |-> Returned.next.context,
                                event |-> InitialEvent]
     /\ [j \in DOMAIN starts |-> starts[j].h] = hs

ExitsRun == {k \in DOMAIN InitialReducers : InitialReducers[k].phase = "exit"}

(* C18: createService runs the initial transition before it returns: the   *)
(* state is the first state declared, or the state in which that state's   *)
(* chain of immediates settles; the first state's enter reducers have been *)
(* applied to the given context; no exit reducer has run; the enter        *)
(* effects of the settled state have been started exactly once.            *)
C18_InitialTransition ==
  Booted => (InitialSettled /\ ExitsRun = {} /\ InitialEffectsStarted)

(* The same, where exit reducers run only for the states that the chain of *)
(* immediates leaves, after the enter reducers of the first state          *)
C18_InitialTransitionWithChain ==
  Booted =>
    /\ InitialSettled
    /\ InitialEffectsStarted
    /\ ~FirstLeft => ExitsRun = {}
    /\ \A k \in ExitsRun :
         /\ k > Len(FirstEntered)
         /\ Passing(InitialReducers[k].context, InitialEvent,
                    ImmediatesOf(machine, InitialReducers[k].node)) # {}

C18_First_reached ==
  /\ Booted /\ ~FirstLeft
  /\ last.arg.context # <<>>
  /\ state.name = FirstState
  /\ pendingEffects # <<>> /\ runningEffects = pendingEffects

C18_Chain_reached ==
  /\ Booted /\ FirstLeft
  /\ last.arg.context # <<>>
  /\ FirstEntered # <<>> /\ ExitsRun # {}
  /\ state.name = "home"
  /\ Get(state.context, "a") = "1" /\ Get(state.context, "booted") = "yes"
  /\ Get(state.context, "left") = "yes" /\ Get(state.context, "arrived") = "yes"
  /\ \A h \in DOMAIN heap : heap[h].run.name = "kick"

(* A service of a machine without states                                   *)
Stateless == created /\ Len(machine.states.keys) = 0

(* C19: for a machine with no state createService yields the state         *)
(* {name: null, context: the given context} without final and without      *)
(* effects, and every later send of any event leaves the state unchanged.  *)
C19_StatelessStaysNull ==
  Stateless =>
    /\ state.name = Null /\ "final" \notin DOMAIN state
    /\ pendingEffects = <<>> /\ runningEffects = <<>> /\ heap = <<>>
    /\ Ops("start") = {} /\ Ops("reduce") = {}
    /\ last.op = "create" => state = [name |-> Null, context |-> last.arg.context]
    /\ last.op # "create" => state = last.pre.state

C19_Created_reached ==
  /\ Stateless /\ last.op = "create"
  /\ state.context = [a |-> "1"]

C19_Sent_reached ==
  /\ Stateless /\ Sent /\ ~last.threw
  /\ LE.type = "go"
  /\ state = [name |-> Null, context |-> [a |-> "1"]]
  /\ Ops("notify") # {}

C19_SentThrew_reached ==
  /\ Stateless /\ Sent /\ last.threw
  /\ state = last.pre.state

(* The targets a description names, in a transition(...) or immediate(...) *)
(* inside a state(...) call, that no state(...) call of it registers       *)
InvalidTargets(d) ==
  UNION { {p.target.s : p \in {q \in Range(Descriptions[d][i].parts) :
                                  q.call \in {"transition", "immediate"}}} :
          i \in DOMAIN Descriptions[d] }
    \ {Descriptions[d][i].name : i \in DOMAIN Descriptions[d]}

Rejected(targets) ==
  /\ last.threw /\ ~created
  /\ Len(log) = 1 /\ log[1].op = "error"
  /\ \E t \in targets : log[1].error = "Invalid transition target '" \o t \o "'"

(* C20: a description with a non-internal transition or an immediate whose *)
(* target is not a state registered by the end of the description makes    *)
(* createService throw 'Invalid transition target <target>', and no        *)
(* service is created.                                                     *)
C20_InvalidTargetRejected ==
  (last.op = "create" /\ InvalidTargets(last.arg.d) # {})
    => Rejected(InvalidTargets(last.arg.d))

(* The same for targets that are not the name of an inherited property     *)
C20_MissingTargetRejected ==
  (last.op = "create" /\ InvalidTargets(last.arg.d) \ ObjectPrototypeKeys # {})
    => Rejected(InvalidTargets(last.arg.d) \ ObjectPrototypeKeys)

C20_Transition_reached ==
  /\ last.op = "create"
  /\ Descriptions[last.arg.d] = MissingTargetMachine
  /\ Rejected({"missing"})

C20_Immediate_reached ==
  /\ last.op = "create"
  /\ Descriptions[last.arg.d] = MissingImmediateMachine
  /\ Rejected({"gone"})

C20_Accepted_reached ==
  /\ created /\ last.op = "send" /\ last.threw
  /\ InvalidTargets(description) = {"constructor", "valueOf"}
  /\ LE.type = "go"

(***************************************************************************)
(* Direct calls of the builder functions on drawn arguments, followed by   *)
(* a run of the reducers list the builder compiled                         *)
(***************************************************************************)
(* Hook options objects *)
BOpts ==
  LET setV == [fn |-> "set", key |-> "v", val |-> "r"]
      copyV == [fn |-> "concat", key |-> "u", prefix |-> "u-", from |-> "v"]
  IN { NoOpts,
       [reduce |-> setV],
       [assign |-> [v |-> "a"]],
       [reduce |-> setV, assign |-> [v |-> "a"]],
       [assign |-> [isTrue |-> TRUE]],
       [assign |-> [fn |-> "prefixer"]],
       [assign |-> [many |-> << [v |-> "a", w |-> "a"], copyV, [v |-> "b"] >>]],
       [action |-> [fn |-> "unused"]],
       [action |-> [many |-> << [fn |-> "unused"], [fn |-> "payload"] >>],
        reduce |-> [many |-> << copyV, setV >>],
        assign |-> [many |-> << [isTrue |-> TRUE], [w |-> "a"] >>]] }

(* Builder calls; names are what a description may pass as an event name   *)
(* or a target.                                                            *)
BCalls ==
  LET names == { Str("go"), Str(""), [ty |-> "number", s |-> "1"],
                 [ty |-> "undefined", s |-> Undefined] }
  IN [call : {"transition"}, event : names, target : names, opts : BOpts]
       \cup [call : {"internal"}, event : names, opts : BOpts]
       \cup [call : {"immediate"}, target : names, opts : BOpts]
       \cup [call : {"enter", "exit"}, opts : BOpts]

(* Immediates that form cycles: a and b lead to each other unguarded; c    *)
(* and d lead to each other until the reducer of d's immediate makes the   *)
(* guard of c's immediate fail.  f is declared with two enter(...) parts,  *)
(* each with invokes and effects.  The immediates of g and h read values   *)
(* that the transition into g, g's enter and g's exit assign.              *)
LoopMachine ==
  << State("a", << Immediate("b", NoOpts) >>),
     State("b", << Immediate("a", NoOpts) >>),
     State("c", << Immediate("d", [guard |-> [fn |-> "contextEq", key |-> "k",
                                              val |-> "go"]]) >>),
     State("d", << Immediate("c", [assign |-> [k |-> "stay"]]) >>),
     State("e", << Transition("go", "a", NoOpts),
                   Transition("turn", "c", NoOpts),
                   Transition("open", "f", NoOpts),
                   Transition("set", "g", [assign |-> [k |-> "go"]]) >>),
     State("f", << Enter([invoke |-> [fn |-> "load"],
                          effect |-> Effect("one", <<>>, "cleanup", <<>>, <<>>)]),
                   Enter([effect |-> [many |->
                            << Effect("two", <<>>, "cleanup", <<>>, <<>>),
                               Effect("three", <<>>, "nothing", <<>>, <<>>),
                               Effect("four", <<>>, "promise", <<>>, <<>>),
                               Effect("five", << Str("note") >>, "cleanup", <<>>,
                                      <<>>) >>],
                          invoke |-> [many |-> << [fn |-> "save"],
                                                  [fn |-> "sync"] >>]]),
                   Internal("note", NoOpts) >>),
     State("g", << Enter([assign |-> [m |-> "in"]]),
                   Exit([assign |-> [out |-> "g"]]),
                   Immediate("a", [guard |-> [fn |-> "never"]]),
                   Immediate("h", [guard |-> [many |->
                     << [fn |-> "contextEq", key |-> "k", val |-> "go"],
                        [fn |-> "contextEq", key |-> "m", val |-> "in"] >>]]),
                   Immediate("f", NoOpts) >>),
     State("h", << Immediate("f", [guard |-> [fn |-> "contextEq", key |-> "out",
                                              val |-> "g"]]),
                   Internal("note", NoOpts) >>) >>

(* The machines applyTransition is called for: 0 is the LoopMachine        *)
AMachine(d) == IF d = 0 THEN createMachine(LoopMachine).value ELSE Machines[d]

(* The depth of nested applyTransition calls the call stack has room for   *)
MaxStack == 6

(* The first applyTransition call that transition(machine, state, event)   *)
(* makes: for the initial event the immediate to the first state, for any  *)
(* other event the first transition of the current state for that event    *)
(* whose guards pass.                                                      *)
AInputs ==
  LET first(M) ==
        [curr : [name : {Null}, context : TContexts], event : {[type |-> Null]},
         t : {createImmediate(Str(M.states.keys[1]), <<>>).value}]
      taken(c, e, candidates) ==
        LET i == firstCandidate(c, [type |-> e], candidates) IN
        IF i # 0 /\ ~checkGuards(c, [type |-> e], candidates[i]).threw
          THEN {candidates[i]} ELSE {}
      later(M) ==
        UNION { UNION { UNION { { [curr |-> [name |-> n, context |-> c],
                                   event |-> [type |-> e], t |-> t] :
                                  t \in taken(c, e, M.states.at[n].transitions.at[e]) } :
                                c \in TContexts } :
                        e \in Range(M.states.at[n].transitions.keys) } :
                n \in Range(M.states.keys) }
  IN UNION { { [op |-> "frame", d |-> d, call |-> f, event |-> f.event,
                curr |-> f.curr, t |-> f.t, depth |-> 1, log |-> <<>>,
                from |-> f.curr, via |-> f.t, mark |-> 0] :
               f \in first(AMachine(d)) \cup later(AMachine(d)) } :
             d \in {c \in TDescriptions : Descriptions[c] # EmptyMachine} \cup {0} }

(* The options argument of useMachine: none, or an object that may give    *)
(* assign (an event name or false) and deps (an array or null).            *)
UOptions ==
  { <<>>, [assign |-> "update"], [assign |-> "false"],
    [deps |-> [isNull |-> TRUE]],
    [assign |-> "false", deps |-> [isNull |-> TRUE]],
    [assign |-> "update", deps |-> [array |-> <<"x">>]] }

(* The context argument of a render *)
UContexts == { [a |-> "1"], [a |-> "2"], [a |-> "1", b |-> "1"], [a |-> "1", b |-> "2"] }

(* How many times the component renders *)
MaxRenders == 3

(* [send].concat(deps || (context ? Object.values(context) : [])), with    *)
(* const { assign = ASSIGN, deps = [] } = options                          *)
assignEffectDeps(options, context) ==
  LET deps == IF "deps" \in DOMAIN options THEN options.deps ELSE [array |-> <<>>]
      keys == SelectSeq(<<"a", "b">>, LAMBDA k : k \in DOMAIN context)
  IN <<"send">> \o (IF "array" \in DOMAIN deps THEN deps.array
                    ELSE [j \in 1..Len(keys) |-> context[keys[j]]])

(* A service of OrderMachine on which subscribe was called with each of    *)
(* fns, in order                                                           *)
MaxListeners == 3

RECURSIVE Subscribed(_)
Subscribed(fns) ==
  IF fns = <<>> THEN createService(OrderMachine, <<>>)
  ELSE subscribe(Subscribed(SubSeq(fns, 1, Len(fns) - 1)), fns[Len(fns)])

InitB ==
  /\ created = FALSE
  /\ description = 0
  /\ machine = NoService.machine
  /\ state = NoService.state
  /\ prev = NoService.prev
  /\ pendingEffects = <<>>
  /\ runningEffects = <<>>
  /\ cbs = <<>>
  /\ running = FALSE
  /\ heap = <<>>
  /\ unsubs = {}
  /\ log = <<>>
  /\ last = NoCall
  /\ tcall \in [op : {"args"}, call : BCalls] \cup AInputs
               \cup [op : {"hook"}, options : UOptions, renders : {0},
                     context : {<<>>}, before : {<<>>}, deps : {<<>>},
                     sent : {<<>>}]
               \cup { [op |-> "listeners", session |-> Subscribed(fns), sends |-> 0,
                       gone |-> {}, stopped |-> FALSE] :
                       fns \in UNION { [1..n -> {"sub1", "sub2", "dropper", "stopper"}] :
                                       n \in 1..MaxListeners } }

(* transition(event, target, opts), internal(event, opts), ...             *)
BuilderCall ==
  /\ tcall.op = "args"
  /\ tcall' = [op |-> "built", call |-> tcall.call, result |-> evalPart(tcall.call)]
  /\ UNCHANGED << created, description, machine, state, prev, pendingEffects,
                  runningEffects, cbs, running, heap, unsubs, log, last >>

(* applyReducers(next, event, part.reducers) for the part that was built   *)
ReducersCall(context, event) ==
  /\ tcall.op = "built"
  /\ ~tcall.result.threw
  /\ tcall' = [op |-> "reduced", call |-> tcall.call, part |-> tcall.result.value,
               context |-> context, event |-> event,
               result |-> applyReducers(context, event, tcall.result.value.reducers,
                            [phase |-> tcall.result.value.type, node |-> Null], <<>>)]
  /\ UNCHANGED << created, description, machine, state, prev, pendingEffects,
                  runningEffects, cbs, running, heap, unsubs, log, last >>

(* One call of applyTransition, up to its return or to the nested call it  *)
(* makes for the first immediate that passes.  A nested call for which the *)
(* stack has no room throws a RangeError.  from, via and mark tell which   *)
(* state the call before this one found, which transition it applied and   *)
(* where its reducer calls begin in the log.                               *)
ApplyStep ==
  /\ tcall.op = "frame"
  /\ LET M == AMachine(tcall.d)
         hooked == applyHooks(M, tcall.curr, tcall.event, tcall.t, tcall.log)
         nextState == M.states.at[hooked.next.name]
         i == firstCandidate(hooked.next.context, tcall.event, nextState.immediates)
         Applied(result, overflow) ==
           [op |-> "applied", d |-> tcall.d, call |-> tcall.call,
            depth |-> tcall.depth, overflow |-> overflow, result |-> result]
     IN tcall' =
          IF hooked.threw THEN Applied(Thrown(tcall.curr, hooked.log), FALSE)
          ELSE IF i = 0
            THEN Applied(applyTransition_settle(M, tcall.curr, tcall.event, tcall.t,
                                                hooked, nextState, 0), FALSE)
          ELSE IF checkGuards(hooked.next.context, tcall.event,
                              nextState.immediates[i]).threw
            THEN Applied(Thrown(tcall.curr, hooked.log), FALSE)
          ELSE IF tcall.depth = MaxStack
            THEN Applied(Thrown(tcall.curr, hooked.log), TRUE)
          ELSE [tcall EXCEPT !.curr = hooked.next, !.t = nextState.immediates[i],
                             !.depth = @ + 1, !.log = hooked.log,
                             !.from = tcall.curr, !.via = tcall.t,
                             !.mark = Len(tcall.log)]
  /\ UNCHANGED << created, description, machine, state, prev, pendingEffects,
                  runningEffects, cbs, running, heap, unsubs, log, last >>

(* runEffects(effects, state, send) for the effects and the state a        *)
(* transition returned, with a send that does nothing                      *)
RunEffectsCall ==
  /\ tcall.op = "applied"
  /\ ~tcall.result.threw
  /\ ~tcall.result.effects.isNull
  /\ LET S0 == setPending(NoService, tcall.result.effects.list,
                          tcall.result.next.name, 0)
         r == runEffects(S0, S0.pendingEffects, tcall.result.next, 0)
     IN tcall' = [op |-> "ran", d |-> tcall.d, effects |-> S0.pendingEffects,
                  state |-> tcall.result.next, event |-> tcall.call.event,
                  result |-> [threw |-> r.s.threw, runningEffects |-> r.runningEffects,
                              heap |-> r.s.heap, log |-> r.s.log]]
  /\ UNCHANGED << created, description, machine, state, prev, pendingEffects,
                  runningEffects, cbs, running, heap, unsubs, log, last >>

(* One render of a component that calls useMachine(create, context,        *)
(* options), and the assign effect committed after it: React runs the      *)
(* effect after the first render and after a render whose dependency       *)
(* array differs from that of the render before in one of the positions    *)
(* both have.  The first run only clears firstRender.                      *)
Render(context) ==
  /\ tcall.op = "hook"
  /\ tcall.renders < MaxRenders
  /\ LET assign == IF "assign" \in DOMAIN tcall.options THEN tcall.options.assign
                   ELSE "assign"
         deps == assignEffectDeps(tcall.options, context)
         runs == \/ tcall.renders = 0
                 \/ \E j \in (DOMAIN deps) \cap (DOMAIN tcall.deps) :
                      deps[j] # tcall.deps[j]
         firstRender == tcall.renders = 0
     IN tcall' = [tcall EXCEPT
                    !.renders = @ + 1,
                    !.before = tcall.context,
                    !.context = context,
                    !.deps = deps,
                    !.sent = IF runs /\ ~firstRender /\ Truthy(assign)
                               THEN << Spread([type |-> assign], context) >>
                               ELSE <<>>]
  /\ UNCHANGED << created, description, machine, state, prev, pendingEffects,
                  runningEffects, cbs, running, heap, unsubs, log, last >>

(* service.send(event) on a service whose listeners may unsubscribe        *)
(* another listener or stop the service; at most two sends                 *)
ListenerSend(event) ==
  /\ tcall.op = "listeners"
  /\ tcall.sends < 2
  /\ LET S == send([tcall.session EXCEPT !.log = <<>>], event, 0)
         lg == tcall.session.log
     IN tcall' = [tcall EXCEPT
                    !.session = S,
                    !.sends = @ + 1,
                    !.gone = @ \cup {lg[k].fn : k \in {n \in DOMAIN lg :
                                                        lg[n].op = "unsubscribed"}},
                    !.stopped = @ \/ \E k \in DOMAIN lg : lg[k].op = "stopped"]
  /\ UNCHANGED << created, description, machine, state, prev, pendingEffects,
                  runningEffects, cbs, running, heap, unsubs, log, last >>

NextB ==
  \/ BuilderCall
  \/ \E context \in { <<>>, [v |-> "0", keep |-> "k"] },
          event \in { [type |-> "go"], [type |-> "go", v |-> "e", x |-> "1"] } :
       ReducersCall(context, event)
  \/ ApplyStep
  \/ RunEffectsCall
  \/ \E context \in UContexts : Render(context)
  \/ \E event \in { Str("go"), Str("back") } : ListenerSend(event)

SpecB == InitB /\ [][NextB]_vars

Built(call) == tcall.op = "built" /\ tcall.call.call = call

NonEmptyString(arg) == arg.ty = "string" /\ arg.s # ""

(* C21: transition(event, target, opts) and internal(event, opts) throw    *)
(* unless event is a non-empty string: a non-string event name and an      *)
(* empty event name are both rejected.                                     *)
C21_EventNameNonEmptyString ==
  (Built("transition") \/ Built("internal"))
    => (~NonEmptyString(tcall.call.event) => tcall.result.threw)

(* The same for event names that are not strings: the error names the      *)
(* first argument                                                          *)
C21_EventNameString ==
  (Built("transition") \/ Built("internal"))
    => (tcall.call.event.ty # "string"
          => /\ tcall.result.threw
             /\ tcall.result.error \in
                  {"First argument of the transition must be the name of the event",
                   "First argument of the internal transition must be the name of the event"})

C21_EmptyTransition_reached ==
  /\ Built("transition") /\ ~tcall.result.threw
  /\ tcall.call.event = Str("") /\ tcall.call.target = Str("go")
  /\ tcall.result.value.event = ""

C21_EmptyInternal_reached ==
  /\ Built("internal") /\ ~tcall.result.threw
  /\ tcall.call.event = Str("")
  /\ tcall.result.value.event = "" /\ isInternal(tcall.result.value)

C21_NonString_reached ==
  /\ Built("transition") /\ tcall.result.threw
  /\ tcall.call.event.ty = "number" /\ tcall.call.target.ty = "number"

AppliedTo(d) == tcall.op = "applied" /\ tcall.d = d

(* C22: for every machine that compiles and whose guards and reducers      *)
(* terminate, the chain of immediate transitions settles after finitely    *)
(* many applyTransition calls and a result is returned.                    *)
C22_ChainSettles == tcall.op = "applied" => ~tcall.overflow

(* The same for the machines other than the LoopMachine; what the nested   *)
(* calls return is what applyTransition returns.                           *)
C22_AcyclicSettles ==
  /\ (tcall.op = "applied" /\ tcall.d # 0)
       => /\ ~tcall.overflow
          /\ tcall.result = applyTransition(AMachine(tcall.d), tcall.call.curr,
                                            tcall.call.event, tcall.call.t, <<>>)
  /\ (tcall.op = "frame" /\ tcall.d # 0)
       => tcall.depth <= Len(AMachine(tcall.d).states.keys)

C22_Overflow_reached ==
  /\ AppliedTo(0) /\ tcall.overflow
  /\ tcall.call.curr.name = Null /\ tcall.depth = MaxStack

C22_LoopSettled_reached ==
  /\ AppliedTo(0) /\ ~tcall.overflow /\ ~tcall.result.threw
  /\ tcall.call.curr.name = "e" /\ tcall.call.t.target = "c"
  /\ tcall.depth = 3
  /\ tcall.result.next = [name |-> "c", context |-> [k |-> "stay"]]

C22_ChainSettled_reached ==
  /\ tcall.op = "applied" /\ tcall.d # 0 /\ ~tcall.result.threw
  /\ tcall.depth = 3 /\ tcall.result.next.name = "C"

(* The part a builder call returned, and the options it was given          *)
BuiltPart == tcall.op = "built" /\ ~tcall.result.threw

Given(hook) ==
  IF hook \in DOMAIN tcall.call.opts THEN toArray(tcall.call.opts[hook]) ELSE <<>>

Lowered(hook) ==
  <<>> \o [j \in 1..Len(Given(hook)) |-> [lowered |-> hook, arg |-> Given(hook)[j]]]

(* The hooks of the reducers that ran, in the order they ran               *)
Ran == <<>> \o [j \in 1..Len(tcall.result.log) |-> tcall.result.log[j].hook]

ReducedPart == tcall.op = "reduced" /\ ~tcall.result.threw

(* C23 as stated: the compiled reducers list of an options object holds    *)
(* the reduce entries first, followed by the lowered assign and action     *)
(* entries, each kind in its declaration order.                            *)
C23_ReduceThenAssignThenAction ==
  BuiltPart => tcall.result.value.reducers
                 = Given("reduce") \o Lowered("assign") \o Lowered("action")

(* C23: the compiled reducers list of an options object holds the lowered  *)
(* assign entries first, followed by the reduce entries and then the       *)
(* lowered action entries, each kind in its declaration order; the         *)
(* reducers run in that order, so an assign runs before a declared reduce  *)
(* of the same options object.                                             *)
C23_AssignThenReduceThenAction ==
  /\ BuiltPart => tcall.result.value.reducers
                    = Lowered("assign") \o Given("reduce") \o Lowered("action")
  /\ ReducedPart => Ran = Lowered("assign") \o Given("reduce") \o Lowered("action")

C23_Both_reached ==
  /\ BuiltPart /\ tcall.call.call = "transition"
  /\ DOMAIN tcall.call.opts = {"reduce", "assign"}
  /\ tcall.result.value.reducers
       = << [lowered |-> "assign", arg |-> [v |-> "a"]],
            [fn |-> "set", key |-> "v", val |-> "r"] >>

C23_BothRan_reached ==
  /\ ReducedPart /\ tcall.call.call = "enter"
  /\ DOMAIN tcall.call.opts = {"reduce", "assign"}
  /\ tcall.result.context.v = "r"

C23_Lists_reached ==
  /\ ReducedPart /\ tcall.call.call = "exit"
  /\ DOMAIN tcall.call.opts = {"reduce", "assign", "action"}
  /\ Len(Ran) = 6
  /\ Ran[1] = [lowered |-> "assign", arg |-> [isTrue |-> TRUE]]
  /\ Ran[4].fn = "set"
  /\ Ran[6] = [lowered |-> "action", arg |-> [fn |-> "payload"]]

(* The context the j-th reducer of the run was called with and the context *)
(* it left                                                                 *)
Before(j) == tcall.result.log[j].context

After(j) ==
  IF j < Len(tcall.result.log) THEN tcall.result.log[j + 1].context
  ELSE tcall.result.context

Payload == [k \in DOMAIN tcall.event \ {"type"} |-> tcall.event[k]]

(* What an assign contributes when it is called with context c             *)
Assigned(assign, c) ==
  IF "isTrue" \in DOMAIN assign THEN Payload
  ELSE IF "fn" \in DOMAIN assign THEN callUser(assign, c, Payload).value
  ELSE assign

Overridden(j, part) ==
  /\ DOMAIN After(j) = DOMAIN Before(j) \cup DOMAIN part
  /\ \A k \in DOMAIN part : After(j)[k] = part[k]
  /\ \A k \in DOMAIN Before(j) \ DOMAIN part : After(j)[k] = Before(j)[k]

AssignsRun == {j \in 1..Len(Ran) : "lowered" \in DOMAIN Ran[j] /\ Ran[j].lowered = "assign"}

(* C24: an assign lowers to a reducer returning the old context overridden *)
(* key by key with the event payload without type (assign is true), with   *)
(* the result of assign(context, payload) (a function) or with the         *)
(* constant object; a list of assigns is applied left to right, each       *)
(* seeing the context the previous one produced, the first seeing the      *)
(* context given, which is left as it was.                                 *)
C24_AssignOverridesKeyByKey ==
  ReducedPart =>
    /\ \A j \in AssignsRun : Overridden(j, Assigned(Ran[j].arg, Before(j)))
    /\ Ran # <<>> => Before(1) = tcall.context
    /\ DOMAIN tcall.call.opts = {"assign"}
         => /\ Ran = Lowered("assign")
            /\ "type" \notin DOMAIN tcall.result.context

C24_True_reached ==
  /\ ReducedPart /\ tcall.call.opts = [assign |-> [isTrue |-> TRUE]]
  /\ tcall.context = [v |-> "0", keep |-> "k"]
  /\ tcall.event = [type |-> "go", v |-> "e", x |-> "1"]
  /\ tcall.result.context = [v |-> "e", keep |-> "k", x |-> "1"]

C24_Function_reached ==
  /\ ReducedPart /\ tcall.call.opts = [assign |-> [fn |-> "prefixer"]]
  /\ tcall.context = [v |-> "0", keep |-> "k"]
  /\ tcall.event = [type |-> "go", v |-> "e", x |-> "1"]
  /\ tcall.result.context = [v |-> "prefixe", keep |-> "k", x |-> "prefix1"]

C24_List_reached ==
  /\ ReducedPart /\ DOMAIN tcall.call.opts = {"assign"} /\ Len(Ran) = 3
  /\ tcall.context = [v |-> "0", keep |-> "k"]
  /\ Before(2).v = "a" /\ Before(3).u = "u-a"
  /\ tcall.result.context = [v |-> "b", w |-> "a", u |-> "u-a", keep |-> "k"]

IsAction(hook) == "lowered" \in DOMAIN hook /\ hook.lowered = "action"

ActionsRun == {j \in 1..Len(Ran) : IsAction(Ran[j])}

(* The reducer calls of a chain of applyTransition calls that returned     *)
AppliedChain == tcall.op = "applied" /\ ~tcall.result.threw

LeftBy(j) ==
  IF j < Len(tcall.result.log) THEN tcall.result.log[j + 1].context
  ELSE tcall.result.next.context

(* C25: an action is called exactly once, with the context, each time the  *)
(* transition, enter or exit it belongs to runs, and the context after it  *)
(* is the context before it, whatever it returns.                          *)
C25_ActionOnceContextKept ==
  /\ ReducedPart =>
       /\ \A j \in ActionsRun : After(j) = Before(j)
       /\ <<>> \o [j \in 1..Cardinality(ActionsRun) |->
                     Ran[Len(Ran) - Cardinality(ActionsRun) + j]] = Lowered("action")
       /\ Cardinality(ActionsRun) = Len(Given("action"))
  /\ AppliedChain =>
       \A j \in 1..Len(tcall.result.log) :
         IsAction(tcall.result.log[j].hook) => LeftBy(j) = tcall.result.log[j].context

C25_Returned_reached ==
  /\ ReducedPart /\ tcall.call.call = "internal"
  /\ tcall.call.opts = [action |-> [fn |-> "unused"]]
  /\ tcall.context = [v |-> "0", keep |-> "k"]
  /\ Len(Ran) = 1
  /\ callUser(Ran[1].arg, Before(1), tcall.event).value = [unused |-> "123"]
  /\ tcall.result.context = [v |-> "0", keep |-> "k"]

C25_Two_reached ==
  /\ ReducedPart /\ tcall.call.call = "enter"
  /\ Cardinality(ActionsRun) = 2 /\ Len(Ran) = 6
  /\ tcall.event = [type |-> "go", v |-> "e", x |-> "1"]
  /\ Before(5) = After(6) /\ Before(5) # tcall.context

C25_InChain_reached ==
  /\ AppliedChain /\ tcall.depth = 3
  /\ Cardinality({j \in 1..Len(tcall.result.log) :
                     IsAction(tcall.result.log[j].hook)}) = 1
  /\ \E j \in 1..Len(tcall.result.log) :
       /\ IsAction(tcall.result.log[j].hook)
       /\ tcall.result.log[j].node = "C"
       /\ tcall.result.log[j].context.exitedB = "yes"

(* The enter parts of the state a chain of applyTransition calls settled   *)
(* in, and the handles of their invokes and of their effects               *)
SettledEnters == AMachine(tcall.d).states.at[tcall.result.next.name].enter

RECURSIVE InvokeHandles(_, _)
InvokeHandles(enters, i) ==
  IF i > Len(enters) THEN <<>>
  ELSE [j \in 1..Len(enters[i].invokes) |->
          [run |-> [promiseEffect |-> enters[i].invokes[j]], event |-> tcall.call.event]]
       \o InvokeHandles(enters, i + 1)

RECURSIVE EffectHandles(_, _)
EffectHandles(enters, i) ==
  IF i > Len(enters) THEN <<>>
  ELSE [j \in 1..Len(enters[i].effects) |->
          [run |-> enters[i].effects[j], event |-> tcall.call.event]]
       \o EffectHandles(enters, i + 1)

RECURSIVE PerEnter(_, _)
PerEnter(enters, i) ==
  IF i > Len(enters) THEN <<>>
  ELSE InvokeHandles(<<enters[i]>>, 1) \o EffectHandles(<<enters[i]>>, 1)
       \o PerEnter(enters, i + 1)

SettledExternal == AppliedChain /\ ~tcall.result.effects.isNull

(* C26 as stated: the effects list built when an external transition       *)
(* settles in a state holds the handles of all the state's enter invokes   *)
(* first, followed by the handles of all its enter effects, each group in  *)
(* declaration order, for any number of enter parts.                       *)
C26_AllInvokesThenAllEffects ==
  SettledExternal =>
    tcall.result.effects.list
      = InvokeHandles(SettledEnters, 1) \o EffectHandles(SettledEnters, 1)

(* C26: the effects list holds, for each enter part of the state in        *)
(* declaration order, the handles of that part's invokes followed by the   *)
(* handles of that part's effects, each in declaration order; for a state  *)
(* with at most one enter part these are all invokes, then all effects.    *)
C26_PerEnterInvokesThenEffects ==
  SettledExternal =>
    /\ tcall.result.effects.list = PerEnter(SettledEnters, 1)
    /\ Len(SettledEnters) <= 1
         => tcall.result.effects.list
              = InvokeHandles(SettledEnters, 1) \o EffectHandles(SettledEnters, 1)

RunOf(j) ==
  IF isPromiseEffect(tcall.result.effects.list[j].run)
    THEN tcall.result.effects.list[j].run.promiseEffect.fn
    ELSE tcall.result.effects.list[j].run.name

C26_TwoEnters_reached ==
  /\ SettledExternal /\ tcall.d = 0 /\ tcall.result.next.name = "f"
  /\ Len(SettledEnters) = 2
  /\ <<>> \o [j \in 1..Len(tcall.result.effects.list) |-> RunOf(j)]
       = << "load", "one", "save", "sync", "two", "three", "four", "five" >>

C26_OneEnter_reached ==
  /\ SettledExternal /\ tcall.result.next.name = "p"
  /\ Len(SettledEnters) = 1
  /\ <<>> \o [j \in 1..Len(tcall.result.effects.list) |-> RunOf(j)]
       = << "load", "jump" >>

RanEffects == tcall.op = "ran" /\ ~tcall.result.threw

(* The entries whose run was called, in the order of the calls             *)
Started ==
  LET at == {j \in 1..Len(tcall.result.log) : tcall.result.log[j].op = "start"}
      nth(k) == CHOOSE j \in at : Cardinality({i \in at : i <= j}) = k
  IN <<>> \o [k \in 1..Cardinality(at) |-> tcall.result.log[nth(k)].h]

ReturnedFunction(h) ==
  \/ isPromiseEffect(tcall.result.heap[h].run)
  \/ /\ ~isPromiseEffect(tcall.result.heap[h].run)
     /\ tcall.result.heap[h].run.returns = "cleanup"

(* C27: runEffects(effects, state, send) calls every entry's run exactly   *)
(* once, in list order, with the state's context and the entry's event,    *)
(* and returns exactly the entries whose run returned a function, in the   *)
(* same order; an entry whose run returned nothing or a promise gets no    *)
(* dispose, so that no cleanup is called for it.                           *)
C27_RunsAllRetainsCleanups ==
  RanEffects =>
    /\ Started = tcall.effects
    /\ \A h \in Range(tcall.effects) :
         /\ tcall.result.heap[h].started = 1
         /\ tcall.result.heap[h].got
              = [context |-> tcall.state.context, event |-> tcall.event]
         /\ tcall.result.heap[h].hasDispose <=> ReturnedFunction(h)
         /\ tcall.result.heap[h].cleaned = 0
    /\ tcall.result.runningEffects = SelectSeq(tcall.effects, ReturnedFunction)

C27_Mixed_reached ==
  /\ RanEffects /\ tcall.d = 0 /\ tcall.state.name = "f"
  /\ Len(tcall.effects) = 8
  /\ tcall.result.runningEffects = << 1, 2, 3, 4, 5, 8 >>
  /\ \E j \in 1..Len(tcall.result.log) :
       tcall.result.log[j].op = "warn" /\ tcall.result.log[j].h = 7

C27_NoneRetained_reached ==
  /\ RanEffects /\ Len(tcall.effects) = 2
  /\ tcall.result.runningEffects = <<>>
  /\ tcall.state.name = "c"

C27_Empty_reached ==
  /\ RanEffects /\ tcall.effects = <<>> /\ tcall.result.runningEffects = <<>>

Rendered == tcall.op = "hook" /\ tcall.renders > 0

LaterRender == tcall.op = "hook" /\ tcall.renders > 1

(* Some value of the context argument differs from the previous render     *)
ContextChanged ==
  \/ DOMAIN tcall.context # DOMAIN tcall.before
  \/ \E k \in DOMAIN tcall.context : tcall.context[k] # tcall.before[k]

DefaultOptions == tcall.options = <<>>

(* C28: with default options useMachine sends no assign event on the first *)
(* render and, on every later render in which a value of the context       *)
(* argument differs from the previous render, sends {type: 'assign',       *)
(* ...context}; with options.assign = false it never sends it.             *)
C28_AssignSentOnContextChange ==
  /\ (Rendered /\ DefaultOptions /\ tcall.renders = 1) => tcall.sent = <<>>
  /\ (LaterRender /\ DefaultOptions /\ ContextChanged)
       => tcall.sent = << [type |-> "assign"] @@ tcall.context >>
  /\ (Rendered /\ "assign" \in DOMAIN tcall.options /\ tcall.options.assign = "false")
       => tcall.sent = <<>>

(* What the hook does: no event on the first render; none when assign is   *)
(* false; none ever while deps is left out or an array that stays the      *)
(* same; with deps: null the event named by assign, with the context       *)
(* spread on it, after every later render in which the value of a key that *)
(* both renders have has changed.                                          *)
C28_AssignSentOnlyWithoutDeps ==
  /\ (Rendered /\ tcall.renders = 1) => tcall.sent = <<>>
  /\ (Rendered /\ "assign" \in DOMAIN tcall.options /\ tcall.options.assign = "false")
       => tcall.sent = <<>>
  /\ (Rendered /\ ("deps" \notin DOMAIN tcall.options
                   \/ "array" \in DOMAIN tcall.options.deps))
       => tcall.sent = <<>>
  /\ (LaterRender /\ tcall.options = [deps |-> [isNull |-> TRUE]]
        /\ \E k \in DOMAIN tcall.context \cap DOMAIN tcall.before :
             tcall.context[k] # tcall.before[k])
       => tcall.sent = << [type |-> "assign"] @@ tcall.context >>

C28_DefaultSilent_reached ==
  /\ LaterRender /\ DefaultOptions
  /\ tcall.before = [a |-> "1"] /\ tcall.context = [a |-> "2"]
  /\ tcall.sent = <<>>

C28_NullDepsSent_reached ==
  /\ LaterRender /\ tcall.options = [deps |-> [isNull |-> TRUE]]
  /\ tcall.before = [a |-> "1"] /\ tcall.context = [a |-> "2"]
  /\ tcall.sent = << [type |-> "assign", a |-> "2"] >>

C28_AssignFalse_reached ==
  /\ LaterRender /\ tcall.options = [assign |-> "false", deps |-> [isNull |-> TRUE]]
  /\ tcall.before = [a |-> "1"] /\ tcall.context = [a |-> "2"]
  /\ tcall.sent = <<>>

(* No transition of the state send finds is declared for the event with    *)
(* guards that pass                                                        *)
NothingSelected ==
  Passing(last.pre.state.context, LE,
          CandidatesOf(machine, last.pre.state, LE.type)) = {}

(* transition returned null to the outermost send exactly when it applied  *)
(* no external transition and no immediate                                 *)
NullIffNoExternal ==
  (Sent /\ ~last.threw) =>
    (Returned.effects.isNull
       <=> (NothingSelected \/ (InternalSent /\ NoImmediateAfter)))

(* Every send that got a list from transition has invoked, before it       *)
(* returns, the cleanup of every effect that was running when it began     *)
ListDisposesRunning ==
  \A span \in SendSpans :
    (\E k \in span[1]..span[2] :
       /\ log[k].op = "transitioned" /\ log[k].lvl = log[span[1]].lvl
       /\ ~log[k].effects.isNull)
      => \A h \in RunningAt(span[1]) :
           \E k \in span[1]..span[2] : log[k].op = "dispose" /\ log[k].h = h

(* C29: transition returns effects = null exactly when no external         *)
(* transition was applied (nothing matched, or an internal transition      *)
(* after which no immediate passed); when an external transition or an     *)
(* immediate was applied it returns a list, possibly empty, and the        *)
(* Session then disposes the previously running effects, also when the     *)
(* list is empty.                                                          *)
C29_NullIffNoExternalElseDisposes == NullIffNoExternal /\ ListDisposesRunning

(* The same for services in which no effect sends an event that causes an  *)
(* external transition, or throws, while it is being started               *)
C29_WithoutReentrantSend ==
  /\ NullIffNoExternal
  /\ ~(StartsReentrant \/ StartThrows) => ListDisposesRunning

C29_EmptyListDisposes_reached ==
  /\ Sent /\ ~last.threw /\ description = 5
  /\ ~Returned.effects.isNull /\ Returned.effects.list = <<>>
  /\ last.pre.runningEffects # <<>>
  /\ Ops("dispose") # {} /\ Ops("start") = {}
  /\ runningEffects = <<>>

C29_InternalNull_reached ==
  /\ InternalSent /\ NoImmediateAfter /\ ~last.threw
  /\ Returned.effects.isNull
  /\ last.pre.runningEffects # <<>> /\ runningEffects = last.pre.runningEffects

C29_Leaked_reached ==
  /\ Sent /\ ~last.threw /\ StartsReentrant
  /\ \E span \in SendSpans :
       /\ log[span[1]].lvl > 0
       /\ \E h \in RunningAt(span[1]) :
            \A k \in DOMAIN log : log[k].op = "dispose" => log[k].h # h

(* A nested applyTransition call is about to apply an immediate            *)
NestedCall == tcall.op = "frame" /\ tcall.depth > 1

(* The reducer calls of the step that made tcall.curr current: the exit    *)
(* reducers of the state left, the reducers of the transition applied, the *)
(* enter reducers of the state entered                                     *)
StepLog == SubSeq(tcall.log, tcall.mark + 1, Len(tcall.log))

StepReducers ==
  (IF ObjHasOwn(AMachine(tcall.d).states, tcall.from.name) /\ ~isInternal(tcall.via)
     THEN Tag("exit", tcall.from.name,
              ExitReducers(AMachine(tcall.d), tcall.from.name))
     ELSE <<>>)
  \o Tag("transition", tcall.curr.name, tcall.via.reducers)
  \o (IF isInternal(tcall.via) THEN <<>>
      ELSE Tag("enter", tcall.curr.name,
               EnterReducers(AMachine(tcall.d), tcall.curr.name)))

(* C30: an immediate's guards are evaluated on the working context after   *)
(* the exit reducers, the transition's own reducers and the entered        *)
(* state's enter reducers of the step that made its state current;         *)
(* immediates are tried in declaration order, the first whose guards all   *)
(* pass is taken, and if none passes the state settles.                    *)
C30_ImmediateGuardsSeeStepContext ==
  /\ NestedCall =>
       LET ims == ImmediatesOf(AMachine(tcall.d), tcall.curr.name)
           pass == Passing(tcall.curr.context, tcall.event, ims)
       IN /\ pass # {}
          /\ tcall.t = ims[Min(pass)]
          /\ <<>> \o [k \in DOMAIN StepLog |-> TagOf(StepLog[k])] = <<>> \o StepReducers
          /\ Threaded(StepLog, tcall.from.context, tcall.event, tcall.curr.context)
  /\ (tcall.op = "applied" /\ ~tcall.result.threw)
       => /\ Passing(tcall.result.next.context, tcall.call.event,
                     ImmediatesOf(AMachine(tcall.d), tcall.result.next.name)) = {}
          /\ tcall.depth = 1 =>
               tcall.result.next.name = IF isInternal(tcall.call.t)
                                          THEN tcall.call.curr.name
                                          ELSE tcall.call.t.target

C30_SameStep_reached ==
  /\ NestedCall /\ tcall.d = 0 /\ tcall.depth = 2
  /\ tcall.from = [name |-> "e", context |-> <<>>]
  /\ tcall.curr = [name |-> "g", context |-> [k |-> "go", m |-> "in"]]
  /\ tcall.t.target = "h"
  /\ Len(ImmediatesOf(AMachine(0), "g")) = 3

C30_ExitSeen_reached ==
  /\ NestedCall /\ tcall.d = 0 /\ tcall.depth = 3
  /\ tcall.from.name = "g" /\ tcall.curr.name = "h"
  /\ tcall.curr.context = [k |-> "go", m |-> "in", out |-> "g"]
  /\ tcall.t.target = "f"

C30_NonePasses_reached ==
  /\ tcall.op = "applied" /\ ~tcall.result.threw /\ tcall.d = 0
  /\ tcall.call.curr.name = "e" /\ tcall.call.t.target = "c"
  /\ tcall.depth = 1
  /\ tcall.result.next.name = "c"
  /\ Len(ImmediatesOf(AMachine(0), "c")) = 1

(***************************************************************************)
(* Properties of the effect handles of the last call                       *)
(***************************************************************************)
(* The latest entry op of the call that made entry k, before k             *)
Prior(k, op) ==
  LET before == {j \in Ops(op) : j < k /\ log[j].lvl = log[k].lvl}
  IN IF before = {} THEN 0 ELSE CHOOSE j \in before : \A i \in before : i <= j

(* The event object dispatched by the call that made entry k: the one of   *)
(* its send, or the initial event when createService made it               *)
Dispatched(k) ==
  IF Prior(k, "sendBegin") = 0 THEN InitialEvent
  ELSE toEventObject(log[Prior(k, "sendBegin")].event)

(* The state the transition of the call that made entry k returned         *)
Settled(k) == log[Prior(k, "transitioned")].next

(* C31: each effect handle created at a settle carries the dispatched      *)
(* event that started the chain, and when the session starts it, its run   *)
(* function receives the settled state's context (after all reducers of    *)
(* the chain) and that event, also when the settled state was reached      *)
(* through immediates.                                                     *)
C31_HandleCarriesEventRunGetsSettledContext ==
  \A k \in Ops("pending") :
    /\ Prior(k, "transitioned") # 0
    /\ \A h \in Range(log[k].hs) :
         /\ heap[h].event = Dispatched(k)
         /\ heap[h].started > 0 =>
              heap[h].got = [context |-> Settled(k).context,
                             event |-> Dispatched(k)]

(* ChainMachine, idle -go-> A -> B -> C: the effect of C is started with   *)
(* the context the reducers of the whole chain produced                    *)
C31_ThroughImmediates_reached ==
  /\ Sent /\ ~last.threw /\ description = 5
  /\ last.pre.state.name = "idle" /\ state.name = "C"
  /\ \E h \in DOMAIN heap :
       /\ RunName(heap[h].run) = "effC"
       /\ heap[h].started = 1
       /\ heap[h].event = [type |-> "go", k |-> "go"]
       /\ heap[h].got.event = [type |-> "go", k |-> "go"]
       /\ heap[h].got.context = state.context
       /\ {"enteredA", "exitedA", "enteredB", "exitedB", "enteredC"}
            \subseteq DOMAIN state.context

(* An effect started by a send that another effect made while it was       *)
(* being started                                                           *)
C31_Nested_reached ==
  /\ Sent /\ ~last.threw
  /\ \E k \in Ops("pending") :
       /\ log[k].lvl > 0
       /\ \E h \in Range(log[k].hs) :
            heap[h].started = 1 /\ heap[h].got.event = [type |-> "go"]

(* createService: the handles carry the initial event                      *)
C31_Initial_reached ==
  /\ Booted
  /\ \E h \in DOMAIN heap :
       heap[h].started = 1 /\ heap[h].got.event = InitialEvent

(* The transition a send on a running service selects: the first candidate *)
(* of the current state for the event whose guards pass                    *)
Selected ==
  LET c == CandidatesOf(machine, last.pre.state, LE.type)
  IN c[Min(Passing(last.pre.state.context, LE, c))]

(* send applied an external transition whose target is the current state   *)
SelfSent ==
  /\ Sent /\ ~last.threw
  /\ Passing(last.pre.state.context, LE,
             CandidatesOf(machine, last.pre.state, LE.type)) # {}
  /\ ~isInternal(Selected)
  /\ Selected.target = last.pre.state.name

(* The reducer calls of the outermost send                                 *)
SendReducers ==
  SubSeq(log, 2, Min({k \in Ops("transitioned") : log[k].lvl = 0}) - 1)

(* The handles the outermost send made                                     *)
Fresh == log[Min({k \in Ops("pending") : log[k].lvl = 0})].hs

(* C32: an external transition whose target is the current state itself    *)
(* runs that state's exit reducers and enter reducers, disposes the        *)
(* state's running effects and starts fresh effect handles; a fresh        *)
(* handle's send is live although the handle of the previous entry was     *)
(* marked disposed.                                                        *)
C32_SelfTransitionReenters ==
  /\ SelfSent =>
       LET name == last.pre.state.name
           step == Tag("exit", name, ExitReducers(machine, name))
                   \o Tag("transition", name, Selected.reducers)
                   \o Tag("enter", name, EnterReducers(machine, name))
       IN /\ Len(SendReducers) >= Len(step)
          /\ <<>> \o [k \in DOMAIN step |-> TagOf(SendReducers[k])] = <<>> \o step
          /\ \A h \in Range(last.pre.runningEffects) :
               heap[h].disposed /\ heap[h].cleaned = 1
          /\ ~Returned.effects.isNull
          /\ Range(Fresh) \cap Range(last.pre.runningEffects) = {}
          /\ Ops("pending") # {}
          /\ state.name = name =>
               /\ RunNames(<<>> \o [j \in DOMAIN Fresh |-> heap[Fresh[j]]])
                    = RunNames(effectsOf(machine.states.at[name].enter, 1, LE))
               /\ \A h \in Range(Fresh) : heap[h].started = 1 /\ ~heap[h].disposed
               /\ runningEffects = SelectSeq(Fresh, LAMBDA h : heap[h].hasDispose)
  /\ (last.op = "late" /\ last.pre.running /\ last.arg.h \notin last.pre.disposed)
       => /\ Ops("sendBegin") # {}
          /\ log[1] = [op |-> "sendBegin", lvl |-> 0, event |-> last.arg.event]

(* SelfMachine, s -again-> s: exit, transition and enter reducers ran, the *)
(* handles of the first entry are disposed, those of the second started    *)
C32_Reentered_reached ==
  /\ SelfSent /\ description = 15
  /\ state = [name |-> "s", context |-> [entered |-> "yes", exited |-> "yes"]]
  /\ Len(SendReducers) = 3
  /\ Len(Fresh) = 2
  /\ \E h \in Range(last.pre.runningEffects) : heap[h].run.name = "beat"

(* The effect of the second entry sends: s is left, although the handle of *)
(* the first entry of the same effect is disposed                          *)
C32_FreshSendLive_reached ==
  /\ last.op = "late" /\ description = 15
  /\ heap[last.arg.h].run.name = "beat"
  /\ last.arg.h \notin last.pre.disposed
  /\ \E g \in last.pre.disposed : heap[g].run.name = "beat"
  /\ last.pre.state.name = "s" /\ state.name = "t"
  /\ state.context = [entered |-> "yes", exited |-> "yes"]

(* A call that ends in service.send found the service in a final state     *)
SentInFinal ==
  /\ last.op \in {"send", "late", "settle"}
  /\ "final" \in DOMAIN last.pre.state
  /\ last.pre.state.final

(* C33: final is absorbing: once service.state.final is true, no later     *)
(* send of any event changes state.name or state.context, and send never   *)
(* disposes or restarts the running effects (only stop does).              *)
C33_FinalAbsorbing ==
  SentInFinal =>
    /\ state = last.pre.state
    /\ runningEffects = last.pre.runningEffects
    /\ pendingEffects = last.pre.pendingEffects
    /\ Ops("dispose") = {} /\ Ops("start") = {} /\ Ops("pending") = {}
    /\ \A h \in Range(runningEffects) : ~heap[h].disposed

(* RawMachine in c, whose effect is running: send('go') changes nothing    *)
C33_SentWithRunningEffect_reached ==
  /\ SentInFinal /\ last.op = "send" /\ description = 16
  /\ last.pre.running /\ ~last.threw
  /\ state.name = "c" /\ Len(runningEffects) = 1
  /\ heap[runningEffects[1]].run.name = "last"
  /\ Ops("sendEnd") # {}

(* An effect of a state left before sends into the final state             *)
C33_LateSend_reached ==
  /\ SentInFinal /\ last.op = "late" /\ description = 15
  /\ last.arg.h \notin last.pre.disposed
  /\ state.name = "u" /\ Ops("sendBegin") # {}

(* An event that names an inherited property is sent in a final state      *)
C33_Inherited_reached ==
  /\ SentInFinal /\ last.op = "send" /\ last.pre.running
  /\ last.arg = Str("constructor")

(* The events the handlers of a settling invoke handed to send             *)
SettleSends ==
  SelectSeq(log, LAMBDA e : e.op = "sendBegin" /\ e.lvl = 0
                            /\ toEventObject(e.event).type \in {"done", "error"})

(* C34: for each start of an invoke at most one event, done or error and   *)
(* never both, is sent to the session, also when the processing of the     *)
(* sent event by the session raises an exception.                          *)
C34_AtMostOneEventPerInvoke ==
  last.op = "settle" => Len(SettleSends) <= 1

(* RawMachine in a: the promise is fulfilled, the reducer of the done      *)
(* transition throws, and the session receives error as well and moves     *)
C34_DoneThenError_reached ==
  /\ last.op = "settle" /\ last.arg.outcome = "fulfilled" /\ description = 16
  /\ Len(SettleSends) = 2
  /\ toEventObject(SettleSends[1].event) = [type |-> "done", data |-> "42"]
  /\ toEventObject(SettleSends[2].event).type = "error"
  /\ Ops("sendThrow") # {}
  /\ last.pre.state.name = "a" /\ state.name = "c"

(* The promise is fulfilled and the done event is processed                *)
C34_DoneOnly_reached ==
  /\ last.op = "settle" /\ last.arg.outcome = "fulfilled"
  /\ Len(SettleSends) = 1 /\ Ops("sendThrow") = {}
  /\ state # last.pre.state

(* C35: over any sequence of send and stop calls, including calls issued   *)
(* from inside effect run functions, cleanup functions or subscribers, the *)
(* cleanup function of each started effect handle is invoked at most once  *)
(* and each effect of a settle is started at most once.                    *)
C35_CleanupAndStartAtMostOnce ==
  \A h \in DOMAIN heap : heap[h].cleaned <= 1 /\ heap[h].started <= 1

(* The same, for effects whose functions call nothing but the send they    *)
(* were given                                                              *)
C35_WithoutServiceSend ==
  description # 16 => \A h \in DOMAIN heap : heap[h].cleaned <= 1 /\ heap[h].started <= 1

(* RawMachine, a -go-> b: the cleanup of a's effect calls service.send     *)
(* while send disposes it; it is called a second time, b's effect is never *)
(* started and c's effect is started twice                                 *)
C35_Twice_reached ==
  /\ Sent /\ ~last.threw /\ description = 16
  /\ last.pre.state.name = "a" /\ state.name = "c"
  /\ \E h \in DOMAIN heap : heap[h].run = RawMachine[1].parts[1].opts.effect
                            /\ heap[h].cleaned = 2
  /\ \E h \in DOMAIN heap : heap[h].origin = "b" /\ heap[h].started = 0
  /\ \E h \in DOMAIN heap : heap[h].origin = "c" /\ heap[h].started = 2
                            /\ runningEffects = << h >>

(* An effect sends while it is started, and the effects are disposed later *)
C35_Reentrant_reached ==
  /\ description = 6 /\ last.op \in {"send", "stop"}
  /\ \E h \in DOMAIN heap : heap[h].run.name = "jump" /\ heap[h].cleaned = 1

(* service.state when entry k of the log was made                          *)
StateAt(k) ==
  LET before == {j \in Ops("transitioned") : j < k}
  IN IF before = {} THEN last.pre.state
     ELSE log[CHOOSE j \in before : \A i \in before : i <= j].next

(* The states the last call delivered to the listener registered at place  *)
(* i of cbs, in order: a round of notifications is a run of notify entries *)
Delivered(i) ==
  LET place(k) == k - (CHOOSE j \in 0..(k - 1) :
                         /\ j = 0 \/ log[j].op # "notify"
                         /\ \A n \in (j + 1)..(k - 1) : log[n].op = "notify")
      mine == {k \in Ops("notify") : place(k) = i}
      nth(j) == CHOOSE k \in mine : Cardinality({n \in mine : n <= k}) = j
  IN [j \in 1..Cardinality(mine) |-> log[nth(j)].state]

(* The states the sends of the last call stored in service.state, in order *)
Applied ==
  LET ts == SelectSeq(log, LAMBDA e : e.op = "transitioned")
  IN [j \in DOMAIN ts |-> ts[j].next]

(* C36: each time a subscriber is invoked, the state it receives equals    *)
(* service.state at that moment; when an effect's run function sends an    *)
(* event synchronously during a send, the last state delivered to each     *)
(* subscriber equals service.state once the outer send returns, and states *)
(* are delivered in the order the events were applied.                     *)
C36_DeliveredStateIsCurrent ==
  (last.op \in {"send", "late", "settle"} /\ ~last.threw) =>
    /\ \A k \in Ops("notify") : log[k].state = StateAt(k)
    /\ \A i \in DOMAIN cbs :
         /\ Delivered(i) # <<>> => Delivered(i)[Len(Delivered(i))] = state
         /\ <<>> \o Delivered(i) = <<>> \o Applied

(* The same, for calls during which no effect sends                        *)
C36_WithoutReentrantSend ==
  (last.op \in {"send", "late", "settle"} /\ ~last.threw
   /\ \A k \in Ops("sendBegin") : log[k].lvl = 0) =>
    /\ \A k \in Ops("notify") : log[k].state = StateAt(k)
    /\ \A i \in DOMAIN cbs :
         /\ Delivered(i) # <<>> => Delivered(i)[Len(Delivered(i))] = state
         /\ <<>> \o Delivered(i) = <<>> \o Applied

(* ReentrantMachine, r0 -start-> p with a listener: the effect of p sends  *)
(* 'go'; the listener receives q and then p, and p is not the state        *)
C36_StaleLast_reached ==
  /\ Sent /\ ~last.threw /\ description = 6
  /\ last.arg = Str("start") /\ state.name = "q"
  /\ cbs # <<>>
  /\ [j \in DOMAIN Delivered(1) |-> Delivered(1)[j].name] = << "q", "p" >>
  /\ [j \in DOMAIN Applied |-> Applied[j].name] = << "p", "q" >>

(* A send without reentrant sends, delivered to two listeners              *)
C36_Plain_reached ==
  /\ Sent /\ ~last.threw /\ Len(cbs) = 2
  /\ \A k \in Ops("sendBegin") : log[k].lvl = 0
  /\ <<>> \o Delivered(2) = << state >> /\ state # last.pre.state

(* The log of the last send of the listener scenario                       *)
RoundLog == tcall.session.log

ListenersSent == tcall.op = "listeners" /\ tcall.sends > 0

(* Listener fn is called by entry n of the log                             *)
Invoked(n, fn) == RoundLog[n].op = "notify" /\ RoundLog[n].cb = fn

(* C37: after the unsubscribe function returned by subscribe(fn) has       *)
(* returned, fn is not invoked by any later notification, including the    *)
(* remainder of a notification round that is in progress when unsubscribe  *)
(* (or stop) is called from another listener.                              *)
C37_NotInvokedAfterUnsubscribe ==
  ListenersSent =>
    /\ \A n \in DOMAIN RoundLog :
         RoundLog[n].op = "notify" => RoundLog[n].cb \notin tcall.gone /\ ~tcall.stopped
    /\ \A k \in DOMAIN RoundLog :
         RoundLog[k].op = "unsubscribed" =>
           \A n \in (k + 1)..Len(RoundLog) : ~Invoked(n, RoundLog[k].fn)
    /\ \A k \in DOMAIN RoundLog :
         RoundLog[k].op = "stopped" =>
           \A n \in (k + 1)..Len(RoundLog) : RoundLog[n].op # "notify"

(* The same, for the rounds after the one in which unsubscribe or stop was *)
(* called                                                                  *)
C37_NotInvokedByLaterRounds ==
  ListenersSent =>
    \A n \in DOMAIN RoundLog :
      RoundLog[n].op = "notify" => RoundLog[n].cb \notin tcall.gone /\ ~tcall.stopped

(* dropper, registered before sub2, unsubscribes sub2; sub2 is called in   *)
(* the same round all the same                                             *)
C37_SameRound_reached ==
  /\ ListenersSent /\ tcall.sends = 1
  /\ \E k \in DOMAIN RoundLog :
       /\ RoundLog[k].op = "unsubscribed"
       /\ \E n \in (k + 1)..Len(RoundLog) : Invoked(n, "sub2")
  /\ tcall.session.cbs = << "dropper" >>

(* stopper stops the service; the listener after it is called              *)
C37_StopSameRound_reached ==
  /\ ListenersSent /\ tcall.sends = 1
  /\ \E k \in DOMAIN RoundLog :
       /\ RoundLog[k].op = "stopped"
       /\ \E n \in (k + 1)..Len(RoundLog) : Invoked(n, "sub1")
  /\ tcall.session.cbs = <<>> /\ ~tcall.session.running

(* The send after the round in which sub2 was unsubscribed calls dropper   *)
(* and no sub2                                                             *)
C37_NextRound_reached ==
  /\ ListenersSent /\ tcall.sends = 2 /\ tcall.gone = {"sub2"}
  /\ \E n \in DOMAIN RoundLog : Invoked(n, "dropper")
  /\ \A n \in DOMAIN RoundLog : ~Invoked(n, "sub2")

(* An effect calls the send it was given after a later settle has replaced *)
(* the handles of its state: the state that started it has been exited     *)
SentAfterExit ==
  /\ last.op = "late"
  /\ last.arg.h \notin Range(last.pre.pendingEffects)

(* C38: an event sent through an effect's send function after the state    *)
(* that started that effect has been exited by an external transition      *)
(* never changes the session's state, whether or not the effect returned a *)
(* cleanup function.                                                       *)
C38_SendAfterExitIgnored ==
  SentAfterExit => state = last.pre.state

(* The same, for effects that returned a cleanup function                  *)
C38_SendAfterExitIgnoredWithCleanup ==
  (SentAfterExit /\ heap[last.arg.h].hasDispose) =>
    /\ state = last.pre.state
    /\ Ops("sendBegin") = {}

(* SelfMachine: s was left for t; the effect of s that returned nothing    *)
(* sends 'tick', and the session goes from t to u                          *)
C38_NoCleanup_reached ==
  /\ SentAfterExit /\ description = 15
  /\ heap[last.arg.h].origin = "s" /\ heap[last.arg.h].run.name = "loose"
  /\ ~heap[last.arg.h].hasDispose /\ ~heap[last.arg.h].disposed
  /\ last.pre.state.name = "t" /\ state.name = "u"

(* The effect of s that returned a cleanup sends after s was left          *)
C38_WithCleanup_reached ==
  /\ SentAfterExit /\ description = 15
  /\ heap[last.arg.h].run.name = "beat" /\ heap[last.arg.h].hasDispose
  /\ last.pre.state.name = "t" /\ state.name = "t"
  /\ Ops("warn") # {}

C39_FinalReached_reached ==
  /\ tcall.op = "transition" /\ ~TR.threw
  /\ "final" \notin DOMAIN TS /\ "final" \in DOMAIN TR.next
  /\ TR.next.name # TS.name

(* Nothing matches: transition returns the state it was passed             *)
C39_Unmatched_reached ==
  /\ tcall.op = "transition" /\ ~TR.threw /\ TE.type # Null
  /\ TR.effects.isNull /\ TR.next = TS

(* C40: in every reachable session state, state.name is either null, which *)
(* happens only when the machine has zero states, or the name of a state   *)
(* present in machine.states; no sequence of sends leads to a name outside *)
(* the compiled state set.                                                 *)
C40_NameIsCompiledState ==
  created =>
    /\ state.name = Null <=> Len(machine.states.keys) = 0
    /\ state.name # Null => ObjHasOwn(machine.states, state.name)
    /\ \A k \in Ops("transitioned") :
         log[k].next.name # Null => ObjHasOwn(machine.states, log[k].next.name)

(* ProtoTargetMachine: the target 'constructor' passed validate; the send  *)
(* that selects the transition throws and the state stays a                *)
C40_InheritedTarget_reached ==
  /\ Sent /\ description = 11 /\ last.arg = Str("go")
  /\ last.pre.state.name = "a"
  /\ Selected.target = "constructor"
  /\ ~ObjHasOwn(machine.states, Selected.target)
  /\ last.threw /\ state.name = "a"

(* A service of a machine without states                                   *)
C40_Null_reached ==
  /\ created /\ Sent /\ Len(machine.states.keys) = 0 /\ state.name = Null

(* A state reached through a chain of immediates                           *)
C40_Chain_reached ==
  /\ created /\ Sent /\ ~last.threw /\ description = 5
  /\ last.pre.state.name = "idle" /\ state.name = "C"
====
